---- MODULE Spec2Model ----
(***************************************************************************)
(* Model of the admin console (Marat1506/apple_admin): the axios client    *)
(* with its request/response interceptors, the AuthProvider context, the   *)
(* PrivateRoute guard, the Dashboard statistics fetch, the slug derivation *)
(* and the resource pages (Products, Categories, FAQ, About Us, Orders,    *)
(* Hero Settings) with their forms and handlers.                           *)
(***************************************************************************)
EXTENDS Integers, Sequences, FiniteSets, TLC

(***************************************************************************)
(* Bounds                                                                  *)
(***************************************************************************)
\* requests issued per page load
MaxReq == 2
\* length of the names fed to generateSlug
MaxNameLen == 5
\* requests the user's actions on a resource page start per page load (the
\* fetches of the mount effect and the list fetch that follows a successful
\* change are not counted)
MaxPageReq == 1
\* the same on the Orders page
MaxOrderReq == 2
\* the image inputs the product form is tried with
MaxImages == 2

(***************************************************************************)
(* JavaScript values, as far as the code inspects them                     *)
(***************************************************************************)
Undefined == [t |-> "undefined"]
Null == [t |-> "null"]
Bool(b) == [t |-> "bool", b |-> b]
Num(n) == [t |-> "num", n |-> n]
Str(s) == [t |-> "str", s |-> s]
Arr(a) == [t |-> "arr", items |-> a]
Obj(f) == [t |-> "obj", f |-> f]
\* a string the code takes apart, as its sequence of characters
Text(cs) == [t |-> "text", cs |-> cs]
NaN == [t |-> "nan"]

\* ToBoolean: the test behind `a || b`, `!a` and `if (a)`
Truthy(v) ==
  CASE v.t = "undefined" -> FALSE
    [] v.t = "null" -> FALSE
    [] v.t = "bool" -> v.b
    [] v.t = "num" -> v.n # 0
    [] v.t = "str" -> v.s # ""
    [] v.t = "text" -> v.cs # <<>>
    [] v.t = "nan" -> FALSE
    [] OTHER -> TRUE

\* property read v.k; reading a property of null or undefined throws
Throws(v) == v.t \in {"undefined", "null"}
Get(v, k) == IF v.t = "obj" /\ k \in DOMAIN v.f THEN v.f[k] ELSE Undefined

\* a || b
Or(a, b) == IF Truthy(a) THEN a ELSE b

\* response.data.data || response.data
Unwrap(body) == Or(Get(body, "data"), body)

(***************************************************************************)
(* Response bodies the backend may send                                    *)
(***************************************************************************)
Envelope(d) == Obj([data |-> d, timestamp |-> Str("ts")])
IsEnvelope(body) == body.t = "obj" /\ DOMAIN body.f = {"data", "timestamp"}

\* localStorage.getItem returns null when the key is absent
NoToken == "null"

AdminUser == Obj([id |-> Str("u1"), role |-> Str("admin")])
CustomerUser == Obj([id |-> Str("u2"), role |-> Str("customer")])
NoRoleUser == Obj([id |-> Str("u3")])
Users == {AdminUser, CustomerUser, NoRoleUser}

LoginData(tok, u) == Obj([access_token |-> Str(tok), user |-> u])
LoginNoUser(tok) == Obj([access_token |-> Str(tok)])

RawMeBodies == Users \cup {Null, Str("")}
MeBodies == RawMeBodies \cup {Envelope(d) : d \in RawMeBodies}

RawLoginBodies ==
  {LoginData("t2", u) : u \in {AdminUser, CustomerUser}}
    \cup {LoginNoUser("t2"), LoginData("t2", Null), Null}
LoginBodies == RawLoginBodies \cup {Envelope(d) : d \in RawLoginBodies}

Stats == Obj([totalRevenue |-> Num(5)])
Paged == Obj([data |-> Arr(<<>>), total |-> Num(0)])
RawStatsBodies ==
  {Stats, Paged, Num(0), Num(7), Str(""), Bool(FALSE), Arr(<<>>), Obj(<<>>)}
StatsBodies ==
  RawStatsBodies \cup {Envelope(d) : d \in RawStatsBodies \cup {Null}}

\* 0 stands for a network error: the rejection carries no response
Statuses == {200, 401, 500, 0}
\* the answers to a resource page's request: success, 401, any other failure
PageStatuses == {200, 401, 500}

(***************************************************************************)
(* Routes                                                                  *)
(***************************************************************************)
LoginPath == "/login"
GuardedRoutes ==
  {"/", "/products", "/orders", "/categories", "/hero-settings", "/faq",
   "/about-us"}
Routes == GuardedRoutes \cup {LoginPath}

(***************************************************************************)
(* document.cookie                                                         *)
(***************************************************************************)
SevenDays == 604800
TokenCookie(tok) ==
  [name |-> "admin_token", value |-> tok, path |-> "/", maxAge |-> SevenDays,
   sameSite |-> "Lax"]
LangCookie ==
  [name |-> "lang", value |-> "en", path |-> "/", maxAge |-> 0,
   sameSite |-> ""]

RECURSIVE Without(_, _)
Without(jar, name) ==
  IF jar = <<>> THEN <<>>
  ELSE IF Head(jar).name = name THEN Without(Tail(jar), name)
  ELSE <<Head(jar)>> \o Without(Tail(jar), name)

\* document.cookie = "admin_token=<tok>; path=/; max-age=...; SameSite=Lax"
SetCookie(jar, c) == Without(jar, c.name) \o <<c>>
\* document.cookie = "admin_token=; path=/; expires=Thu, 01 Jan 1970 ..."
ExpireCookie(jar, name) == Without(jar, name)

\* cookies.find(c => c.trim().startsWith('admin_token=')), then split('=')[1]
RECURSIVE FindCookie(_, _)
FindCookie(jar, name) ==
  IF jar = <<>> THEN NoToken
  ELSE IF Head(jar).name = name THEN Head(jar).value
  ELSE FindCookie(Tail(jar), name)

Jars ==
  {<<>>, <<LangCookie>>, <<TokenCookie("t1")>>,
   <<LangCookie, TokenCookie("t1")>>}

(***************************************************************************)
(* api.interceptors.request.use                                            *)
(***************************************************************************)
\* no Authorization header
NoHeader == <<>>
Bearer(tok) == <<"Bearer", tok>>

\* the interceptor without its cookie fallback
RequestTokenNoCookie(ls, jar) == ls

RequestToken(ls, jar) == IF ls # NoToken THEN ls ELSE FindCookie(jar, "admin_token")

RequestInterceptor(ls, jar) ==
  IF RequestToken(ls, jar) # NoToken THEN Bearer(RequestToken(ls, jar))
  ELSE NoHeader

(***************************************************************************)
(* api.interceptors.response.use, rejection branch                         *)
(***************************************************************************)
\* the interceptor without its pathname test
ResponseInterceptorAlwaysNav(status, ls, jar, path) ==
  IF status = 401
  THEN [ls |-> NoToken, jar |-> ExpireCookie(jar, "admin_token"),
        removes |-> 1, expires |-> 1, navs |-> 1]
  ELSE [ls |-> ls, jar |-> jar, removes |-> 0, expires |-> 0, navs |-> 0]

ResponseInterceptor(status, ls, jar, path) ==
  IF status = 401
  THEN [ls |-> NoToken, jar |-> ExpireCookie(jar, "admin_token"),
        removes |-> 1, expires |-> 1,
        navs |-> IF path # LoginPath THEN 1 ELSE 0]
  ELSE [ls |-> ls, jar |-> jar, removes |-> 0, expires |-> 0, navs |-> 0]

(***************************************************************************)
(* PrivateRoute and the route table                                        *)
(***************************************************************************)
\* the guard without its isLoading branch
PrivateRouteNoSpinner(auth, loading) == IF auth THEN "children" ELSE "navigate"

PrivateRoute(auth, loading) ==
  IF loading THEN "spinner" ELSE IF auth THEN "children" ELSE "navigate"

Element(path, auth, loading) ==
  IF path = LoginPath THEN "login" ELSE PrivateRoute(auth, loading)

\* <Navigate to="/login" /> replaces the location when it renders
PathAfterRender(path, auth, loading) ==
  IF Element(path, auth, loading) = "navigate" THEN LoginPath ELSE path

ScreenAfterRender(path, auth, loading) ==
  Element(PathAfterRender(path, auth, loading), auth, loading)

(***************************************************************************)
(* generateSlug                                                            *)
(***************************************************************************)
LowerLetters ==
  <<"a", "b", "c", "d", "e", "f", "g", "h", "i", "j", "k", "l", "m", "n", "o",
    "p", "q", "r", "s", "t", "u", "v", "w", "x", "y", "z">>
UpperLetters ==
  <<"A", "B", "C", "D", "E", "F", "G", "H", "I", "J", "K", "L", "M", "N", "O",
    "P", "Q", "R", "S", "T", "U", "V", "W", "X", "Y", "Z">>
Digits == {"0", "1", "2", "3", "4", "5", "6", "7", "8", "9"}
Range(f) == {f[k] : k \in DOMAIN f}

\* String.prototype.toLowerCase, per character
LowerChar(c) ==
  IF c \in Range(UpperLetters)
  THEN LowerLetters[CHOOSE k \in DOMAIN UpperLetters : UpperLetters[k] = c]
  ELSE c
ToLowerCase(s) == [i \in 1..Len(s) |-> LowerChar(s[i])]

\* [a-z0-9]
IsAlnum(c) == c \in Range(LowerLetters) \cup Digits

\* .replace(/[^a-z0-9]+/g, '-')
RECURSIVE ReplaceRuns(_)
ReplaceRuns(s) ==
  IF s = <<>> THEN <<>>
  ELSE IF IsAlnum(Head(s)) THEN <<Head(s)>> \o ReplaceRuns(Tail(s))
  ELSE IF Len(s) > 1 /\ ~IsAlnum(s[2]) THEN ReplaceRuns(Tail(s))
  ELSE <<"-">> \o ReplaceRuns(Tail(s))

\* the trim with /^-/ only
TrimHyphensLeading(s) == IF s # <<>> /\ Head(s) = "-" THEN Tail(s) ELSE s

\* .replace(/(^-|-$)/g, '')
TrimHyphens(s) ==
  LET a == IF s # <<>> /\ Head(s) = "-" THEN Tail(s) ELSE s
  IN IF a # <<>> /\ a[Len(a)] = "-" THEN SubSeq(a, 1, Len(a) - 1) ELSE a

generateSlug(name) == TrimHyphens(ReplaceRuns(ToLowerCase(name)))

(***************************************************************************)
(* String and number conversions of the resource pages                     *)
(***************************************************************************)
DigitSeq == <<"0", "1", "2", "3", "4", "5", "6", "7", "8", "9">>

\* String.prototype.trim
RECURSIVE TrimStart(_)
TrimStart(s) == IF s # <<>> /\ Head(s) = " " THEN TrimStart(Tail(s)) ELSE s
RECURSIVE TrimEnd(_)
TrimEnd(s) ==
  IF s # <<>> /\ s[Len(s)] = " " THEN TrimEnd(SubSeq(s, 1, Len(s) - 1)) ELSE s
Trim(s) == TrimEnd(TrimStart(s))

\* String.prototype.split(',')
RECURSIVE Split(_)
Split(s) ==
  IF \A i \in 1..Len(s) : s[i] # "," THEN <<s>>
  ELSE LET i == CHOOSE k \in 1..Len(s) :
                  s[k] = "," /\ \A j \in 1..(k - 1) : s[j] # ","
       IN <<SubSeq(s, 1, i - 1)>> \o Split(SubSeq(s, i + 1, Len(s)))

\* Number.prototype.toString of a non-negative integer
RECURSIVE NumToText(_)
NumToText(n) ==
  IF n < 10 THEN <<DigitSeq[n + 1]>>
  ELSE NumToText(n \div 10) \o <<DigitSeq[(n % 10) + 1]>>

RECURSIVE DigitsValue(_)
DigitsValue(s) ==
  IF s = <<>> THEN 0
  ELSE 10 * DigitsValue(SubSeq(s, 1, Len(s) - 1))
         + (CHOOSE d \in 0..9 : DigitSeq[d + 1] = s[Len(s)])

\* Number(string) for strings of digits, blanks and other characters that
\* form no numeric literal: blank is 0, digits are their value, the rest NaN
ToNumber(s) ==
  LET t == Trim(s)
  IN IF \A i \in 1..Len(t) : t[i] \in Digits THEN Num(DigitsValue(t)) ELSE NaN

\* list.flatMap(v => v.split(',').map(s => s.trim())).filter(v => v !== '')
RECURSIVE SplitTrim(_)
SplitTrim(list) ==
  IF list = <<>> THEN <<>>
  ELSE LET parts == Split(Head(list).cs)
       IN [i \in 1..Len(parts) |-> Text(Trim(parts[i]))] \o SplitTrim(Tail(list))
ProcessVariant(list) == Arr(SelectSeq(SplitTrim(list.items), LAMBDA v : v.cs # <<>>))

\* typeof v === 'object'
IsObject(v) == v.t \in {"obj", "arr", "null"}

(***************************************************************************)
(* The forms of the resource pages                                         *)
(***************************************************************************)
EmptyObj == Obj(<<>>)
EmptyArr == Arr(<<>>)
Languages(en, ru, ar) == Obj([en |-> en, ru |-> ru, ar |-> ar])
NameDescription(n, d) == Obj([name |-> n, description |-> d])
QuestionAnswer(q, a, c) == Obj([question |-> q, answer |-> a, category |-> c])

\* Products: the form of openAddModal and of useState
EmptyProductForm ==
  LET blank == NameDescription(Text(<<>>), Str(""))
  IN Obj([name |-> Text(<<>>), description |-> Str(""), price |-> Text(<<>>),
          categoryId |-> Str(""), images |-> Arr(<<Text(<<>>)>>),
          stock |-> Text(<<>>), featured |-> Bool(FALSE), badge |-> Str(""),
          specs |-> EmptyObj,
          variants |-> Obj([colors |-> EmptyArr, storage |-> EmptyArr,
                            versions |-> EmptyArr]),
          translations |-> Languages(blank, blank, blank)])

\* the outcome of a statement that reads a property of null or undefined:
\* the handler stops there and the statements after it do not run
TypeError == [t |-> "throws"]

\* an openEditModal without the conversion of the old colour format
LegacyColorsNever(colors) == Bool(FALSE)

\* Products.openEditModal: the test for colours stored as objects,
\* colors.length > 0 && typeof colors[0] === 'object' && colors[0].name;
\* typeof null is 'object', so a first colour of null reaches the read of name
LegacyColors(colors) ==
  IF Len(colors.items) = 0 \/ ~IsObject(colors.items[1])
  THEN Bool(FALSE)
  ELSE IF Throws(colors.items[1])
       THEN TypeError
       ELSE Bool(Truthy(Get(colors.items[1], "name")))

\* Products.openEditModal: colours stored as objects become their names,
\* colors.map(color => color.name), which reads name of every element
FormColors(variants) ==
  LET colors == Or(Get(variants, "colors"), EmptyArr)
      legacy == LegacyColors(colors)
  IN IF legacy = TypeError
     THEN TypeError
     ELSE IF legacy = Bool(TRUE)
          THEN IF \E i \in 1..Len(colors.items) : Throws(colors.items[i])
               THEN TypeError
               ELSE Arr([i \in 1..Len(colors.items) |->
                           Get(colors.items[i], "name")])
          ELSE colors

\* Products.openEditModal: the form state set from the product, or TypeError
\* when a statement before setFormData throws
ProductForm(product) ==
  LET translations == Or(Get(product, "translations"), EmptyObj)
      specs == Or(Get(product, "specs"), EmptyObj)
      variants == Or(Get(product, "variants"),
                     Obj([colors |-> EmptyArr, storage |-> EmptyArr,
                          versions |-> EmptyArr]))
      description == Or(Get(product, "description"), Str(""))
      own == NameDescription(Get(product, "name"), description)
  IN IF \/ FormColors(variants) = TypeError
        \/ Throws(Get(product, "price"))
        \/ Throws(Get(product, "images"))
        \/ Throws(Get(product, "stock"))
     THEN TypeError
     ELSE
     Obj([name |-> Get(product, "name"),
          description |-> description,
          price |-> Text(NumToText(Get(product, "price").n)),
          categoryId |-> Or(Get(product, "categoryId"), Str("")),
          images |-> IF Len(Get(product, "images").items) > 0
                     THEN Get(product, "images") ELSE Arr(<<Text(<<>>)>>),
          stock |-> Text(NumToText(Get(product, "stock").n)),
          featured |-> Get(product, "featured"),
          badge |-> Or(Get(product, "badge"), Str("")),
          specs |-> specs,
          variants |-> Obj([colors |-> FormColors(variants),
                            storage |-> Or(Get(variants, "storage"), EmptyArr),
                            versions |-> Or(Get(variants, "versions"), EmptyArr)]),
          translations |-> Languages(Or(Get(translations, "en"), own),
                                     Or(Get(translations, "ru"), own),
                                     Or(Get(translations, "ar"), own))])

\* a handleSubmit that sends the image inputs as they are
SentImagesUnfiltered(images) == images

\* formData.images.filter(img => img.trim() !== '')
SentImages(images) ==
  Arr(SelectSeq(images.items, LAMBDA img : Trim(img.cs) # <<>>))

\* Products.handleSubmit: dataToSend
ProductData(form) ==
  LET variants == Get(form, "variants")
  IN Obj([name |-> Get(form, "name"),
          description |-> Get(form, "description"),
          slug |-> Text(generateSlug(Get(form, "name").cs)),
          images |-> SentImages(Get(form, "images")),
          price |-> Or(ToNumber(Get(form, "price").cs), Num(0)),
          stock |-> Or(ToNumber(Get(form, "stock").cs), Num(0)),
          categoryId |-> Or(Get(form, "categoryId"), Undefined),
          featured |-> Get(form, "featured"),
          badge |-> Or(Get(form, "badge"), Undefined),
          specs |-> Get(form, "specs"),
          variants |-> Obj([colors |-> ProcessVariant(Get(variants, "colors")),
                            storage |-> ProcessVariant(Get(variants, "storage")),
                            versions |-> ProcessVariant(Get(variants, "versions"))]),
          translations |-> Get(form, "translations")])

\* Categories: the form of openAddModal, closeModal and useState
EmptyCategoryForm ==
  LET blank == NameDescription(Text(<<>>), Str(""))
  IN Obj([name |-> Text(<<>>), description |-> Str(""), imageUrl |-> Str(""),
          translations |-> Languages(blank, blank, blank)])

\* Categories.openEditModal
CategoryForm(category) ==
  LET translations == Or(Get(category, "translations"), EmptyObj)
      own == NameDescription(Get(category, "name"),
                             Or(Get(category, "description"), Str("")))
  IN Obj([name |-> Get(category, "name"),
          description |-> Get(category, "description"),
          imageUrl |-> Or(Get(category, "imageUrl"), Str("")),
          translations |-> Languages(Or(Get(translations, "en"), own),
                                     Or(Get(translations, "ru"), own),
                                     Or(Get(translations, "ar"), own))])

\* Categories.handleSubmit: dataToSend
CategoryData(form) ==
  Obj([name |-> Get(form, "name"),
       description |-> Get(form, "description"),
       slug |-> Text(generateSlug(Get(form, "name").cs)),
       imageUrl |-> Or(Get(form, "imageUrl"), Undefined),
       translations |-> Get(form, "translations")])

\* FAQ: the form of openAddModal and useState
EmptyFAQForm ==
  LET blank == QuestionAnswer(Str(""), Str(""), Str(""))
  IN Obj([category |-> Str(""), order |-> Num(0),
          translations |-> Languages(blank, blank, blank)])

\* FAQPage.openEditModal
FAQForm(faq) ==
  LET translations == Or(Get(faq, "translations"), EmptyObj)
      blank == QuestionAnswer(Str(""), Str(""), Str(""))
  IN Obj([category |-> Get(faq, "category"),
          order |-> Or(Get(faq, "order"), Num(0)),
          translations |-> Languages(Or(Get(translations, "en"), blank),
                                     Or(Get(translations, "ru"), blank),
                                     Or(Get(translations, "ar"), blank))])

\* FAQPage.handleSubmit: dataToSend
FAQData(form) ==
  Obj([category |-> Get(form, "category"), order |-> Get(form, "order"),
       translations |-> Get(form, "translations")])

\* About Us: the form of openAddModal and useState
EmptySectionForm ==
  Obj([key |-> Str(""), translations |-> Languages(EmptyObj, EmptyObj, EmptyObj)])

\* AboutUsPage.openEditModal
SectionForm(section) ==
  LET translations == Or(Get(section, "translations"), EmptyObj)
  IN Obj([key |-> Get(section, "key"),
          translations |-> Languages(Or(Get(translations, "en"), EmptyObj),
                                     Or(Get(translations, "ru"), EmptyObj),
                                     Or(Get(translations, "ar"), EmptyObj))])

\* AboutUsPage.handleSubmit: dataToSend
SectionData(form) ==
  Obj([key |-> Get(form, "key"), translations |-> Get(form, "translations")])

(***************************************************************************)
(* The resource pages: routes, endpoints, handlers' shaping of the form    *)
(***************************************************************************)
CrudPages == {"products", "categories", "faq", "about-us"}
Pages == CrudPages \cup {"orders", "hero-settings"}

\* the route of each page component
PagePath(p) ==
  CASE p = "products" -> "/products"
    [] p = "categories" -> "/categories"
    [] p = "faq" -> "/faq"
    [] p = "about-us" -> "/about-us"
    [] p = "orders" -> "/orders"
    [] p = "hero-settings" -> "/hero-settings"

\* the endpoint a page's list fetch reads
ListPath(p) ==
  CASE p = "products" -> "/products"
    [] p = "categories" -> "/categories"
    [] p = "faq" -> "/settings/faq"
    [] p = "about-us" -> "/settings/about-us"
    [] p = "orders" -> "/orders/admin/all"
    [] p = "hero-settings" -> "/settings/hero"

\* the endpoint a page's create, update and delete address
ItemPath(p) == IF p = "orders" THEN "/orders" ELSE ListPath(p)

\* a URL: the collection's path, and the record addressed under it (the
\* value interpolated into the template literal), Undefined for the collection
Url(path, of) == [path |-> path, of |-> of]

\* what names a record in a URL: section.key on About Us, id elsewhere
KeyField(p) == IF p = "about-us" THEN "key" ELSE "id"

\* api.patch on Products and Categories, api.put on FAQ and About Us
UpdateMethod(p) == IF p \in {"products", "categories"} THEN "PATCH" ELSE "PUT"

EmptyForm(p) ==
  CASE p = "products" -> EmptyProductForm
    [] p = "categories" -> EmptyCategoryForm
    [] p = "faq" -> EmptyFAQForm
    [] p = "about-us" -> EmptySectionForm
    [] OTHER -> Undefined

\* openEditModal's form state
FormOf(p, rec) ==
  CASE p = "products" -> ProductForm(rec)
    [] p = "categories" -> CategoryForm(rec)
    [] p = "faq" -> FAQForm(rec)
    [] p = "about-us" -> SectionForm(rec)

\* handleSubmit's dataToSend
DataToSend(p, form) ==
  CASE p = "products" -> ProductData(form)
    [] p = "categories" -> CategoryData(form)
    [] p = "faq" -> FAQData(form)
    [] p = "about-us" -> SectionData(form)

\* closeModal: Categories resets the form, the other pages keep it
ClosedForm(p, form) == IF p = "categories" THEN EmptyCategoryForm ELSE form

\* the key input of About Us: disabled={!!editingSection}
KeyEditableAlways(edited) == TRUE
KeyEditable(edited) == ~Truthy(edited)

\* { ...formData, [k]: v }
With(form, k, v) == Obj([form.f EXCEPT ![k] = v])

\* AboutUsPage.updateTranslation
UpdateTranslation(form, lang, field, value) ==
  LET translations == Get(form, "translations")
      old == Get(translations, lang).f
      new == [k \in DOMAIN old \cup {field} |-> IF k = field THEN value ELSE old[k]]
  IN With(form, "translations", With(translations, lang, Obj(new)))

\* the form states one input event can produce
FormEdits(p, form, edited) ==
  CASE p = "products" ->
         {With(form, "name", Text(<<"P", " ", "5">>))}
    [] p = "categories" -> {With(form, "name", Text(<<"a", "!">>))}
    [] p = "faq" -> {With(form, "category", Str("general"))}
    [] p = "about-us" ->
         {UpdateTranslation(form, "en", "title", Str("T"))}
           \cup (IF KeyEditable(edited) THEN {With(form, "key", Str("k9"))} ELSE {})

(***************************************************************************)
(* The backend's records, as the pages read and write them                 *)
(***************************************************************************)
Phone ==
  Obj([id |-> Str("p1"), name |-> Text(<<"P", "5">>), slug |-> Text(<<"p", "5">>),
       description |-> Str("d"), price |-> Num(7),
       images |-> Arr(<<Text(<<"u">>)>>), stock |-> Num(3),
       featured |-> Bool(TRUE), badge |-> Str("new"), categoryId |-> Str("c1"),
       specs |-> Obj([ram |-> Str("8")]),
       variants |-> Obj([colors |-> Arr(<<Text(<<"a">>)>>), storage |-> EmptyArr,
                         versions |-> EmptyArr]),
       translations |-> Languages(NameDescription(Text(<<"P", "5">>), Str("d")),
                                  NameDescription(Text(<<"P", "5">>), Str("d")),
                                  NameDescription(Text(<<"P", "5">>), Str("d")))])
\* a product with the required fields of the Product interface only
Plain ==
  Obj([id |-> Str("p2"), name |-> Text(<<"a">>), slug |-> Text(<<"a">>),
       price |-> Num(0), images |-> EmptyArr, stock |-> Num(12),
       featured |-> Bool(FALSE)])

Phones ==
  Obj([id |-> Str("c1"), name |-> Text(<<"P">>), slug |-> Text(<<"p">>),
       description |-> Str("d"), imageUrl |-> Str("u"),
       translations |-> Languages(NameDescription(Text(<<"P">>), Str("d")),
                                  NameDescription(Text(<<"P">>), Str("d")),
                                  NameDescription(Text(<<"P">>), Str("d")))])
Cases ==
  Obj([id |-> Str("c2"), name |-> Text(<<"a">>), slug |-> Text(<<"a">>),
       description |-> Str("")])

Shipping ==
  Obj([id |-> Str("f1"), category |-> Str("shipping"), order |-> Num(1),
       translations |-> Languages(QuestionAnswer(Str("q"), Str("a"), Str("c")),
                                  QuestionAnswer(Str("q"), Str("a"), Str("c")),
                                  QuestionAnswer(Str("q"), Str("a"), Str("c")))])
\* a FAQ translated into one language, its order 0
Returns ==
  Obj([id |-> Str("f2"), category |-> Str("returns"), order |-> Num(0),
       translations |-> Obj([en |-> QuestionAnswer(Str("q"), Str("a"), Str("c"))])])

Mission ==
  Obj([id |-> Str("s1"), key |-> Str("k1"),
       translations |-> Languages(Obj([title |-> Str("M")]),
                                  Obj([title |-> Str("M")]),
                                  Obj([title |-> Str("M")]))])
Story ==
  Obj([id |-> Str("s2"), key |-> Str("k2"),
       translations |-> Obj([en |-> Obj([title |-> Str("S")])])])

\* orders, as the list and the detail endpoint return them
Fresh ==
  Obj([id |-> Str("o1"), status |-> Str("pending"), total |-> Num(10)])
Done ==
  Obj([id |-> Str("o2"), status |-> Str("delivered"), total |-> Num(20)])

\* the options of the two status selects
OrderStatuses == {"pending", "processing", "shipped", "delivered", "cancelled"}

\* the Close Order buttons are rendered for these
Open(status) == status \notin {Str("delivered"), Str("cancelled")}

\* PATCH /orders/:id/status
StatusUrl(id) == [path |-> "/orders", of |-> id, sub |-> "status"]

\* the hero settings record
Hero(image) == Obj([key |-> Str("hero"), value |-> Obj([image |-> Str(image)])])

\* a product saved by this form, without images, category or badge
Spare ==
  Obj([id |-> Str("p3"), name |-> Text(<<"a", " ", "5">>),
       slug |-> Text(<<"a", "-", "5">>), description |-> Str(""),
       price |-> Num(0), images |-> EmptyArr, stock |-> Num(10),
       featured |-> Bool(FALSE), specs |-> EmptyObj,
       variants |-> Obj([colors |-> EmptyArr,
                         storage |-> Arr(<<Text(<<"6", "4">>), Text(<<"1", "2", "8">>)>>),
                         versions |-> EmptyArr]),
       translations |-> Languages(NameDescription(Text(<<"a">>), Str("")),
                                  NameDescription(Text(<<"b">>), Str("d")),
                                  EmptyObj)])
\* a product in the old shape: colours as { id, name, hex } objects, one
\* storage entry holding two values, a blank image, an empty badge
Legacy ==
  Obj([id |-> Str("p4"), name |-> Text(<<"P">>), slug |-> Text(<<"p">>),
       description |-> Str("d"), price |-> Num(7),
       images |-> Arr(<<Text(<<"u">>), Text(<<" ">>)>>), stock |-> Num(3),
       featured |-> Bool(TRUE), badge |-> Str(""), categoryId |-> Str("c1"),
       specs |-> EmptyObj,
       variants |-> Obj([colors |-> Arr(<<Obj([id |-> Str("1"),
                                               name |-> Text(<<"a">>),
                                               hex |-> Str("#000")]),
                                          Obj([id |-> Str("2"),
                                               name |-> Text(<<"b">>),
                                               hex |-> Str("#fff")])>>),
                         storage |-> Arr(<<Text(<<"6", ",", " ", "8">>)>>),
                         versions |-> EmptyArr]),
       translations |-> Languages(NameDescription(Text(<<"P">>), Str("d")),
                                  NameDescription(Text(<<"P">>), Str("d")),
                                  NameDescription(Text(<<"P">>), Str("d")))])

\* the records a page's collection is drawn from
Pool(p) ==
  CASE p = "products" -> <<Phone>>
    [] p = "categories" -> <<Phones, Cases>>
    [] p = "faq" -> <<Shipping, Returns>>
    [] p = "about-us" -> <<Mission, Story>>
    [] p = "orders" -> <<Fresh, Done>>
    [] p = "hero-settings" -> <<Hero("a.png")>>

\* the records the edit forms are tried on: saved by the forms, created
\* without the optional fields, and in the old shape
EditPool(p) ==
  CASE p = "products" -> <<Phone, Plain, Spare, Legacy>>
    [] p = "categories" -> <<Phones, Cases>>
    [] p = "faq" -> <<Shipping, Returns>>
    [] p = "about-us" -> <<Mission, Story>>

\* JSON.stringify leaves out the fields that are undefined
Defined(data) ==
  Obj([k \in {j \in DOMAIN data.f : data.f[j] # Undefined} |-> data.f[k]])

Merge(rec, data) ==
  Obj([k \in DOMAIN rec.f \cup DOMAIN data.f |->
         IF k \in DOMAIN data.f THEN data.f[k] ELSE rec.f[k]])

\* ids the backend gives to created records, by the request that created them
NewIds == <<"n1", "n2", "n3", "n4", "n5", "n6", "n7">>

\* the collection after the backend has carried out a request
ServerApply(p, rows, r) ==
  CASE r.method = "POST" ->
         Append(rows, Merge(Obj([id |-> Str(NewIds[r.id])]), Defined(r.data)))
    [] r.method \in {"PATCH", "PUT"} ->
         [i \in 1..Len(rows) |->
            IF Get(rows[i], KeyField(p)) = r.url.of
            THEN Merge(rows[i], Defined(r.data)) ELSE rows[i]]
    [] r.method = "DELETE" ->
         SelectSeq(rows, LAMBDA x : Get(x, KeyField(p)) # r.url.of)
    [] OTHER -> rows

\* the bodies a list endpoint answers a successful GET with: the collection,
\* bare or in the envelope, or no collection at all
ListBodies(rows) == {Arr(rows), Envelope(Arr(rows)), Null, Envelope(Null)}

\* the bodies GET /orders/admin/:id answers with
DetailBodies(rows, id) ==
  LET found == {i \in 1..Len(rows) : Get(rows[i], "id") = id}
  IN UNION {{rows[i], Envelope(rows[i])} : i \in found} \cup {Null}

\* the bodies GET /settings/hero answers with
SettingsBodies(rows) ==
  UNION {{rows[i], Envelope(rows[i])} : i \in 1..Len(rows)} \cup {Null}

\* the bodies POST /products/images answers with
UploadBodies == {Envelope(Obj([images |-> Arr(<<Text(<<"v">>)>>)])), Null}

\* handleImageUpload's validation of the chosen file: a text file ("text")
\* and an image over 5 MB ("huge") are refused, an image ("image") is sent
Refused(file) == file \in {"text", "huge"}

\* response.data.data?.images || response.data.images || []
UploadedImages(body) ==
  LET data == Get(body, "data")
      inner == IF Throws(data) THEN Undefined ELSE Get(data, "images")
  IN Or(Or(inner, Get(body, "images")), EmptyArr)

\* finally { setLoading(false) }, { setSaving(false) }, { setUploading(false) }
FlagAfterTryOnly(ok) == ~ok
FlagAfter(ok) == FALSE

\* Array.isArray(x) ? x : []
ArrayOrEmpty(x) == IF x.t = "arr" THEN x.items ELSE <<>>

\* a catch block that leaves the collection as it was
ListAfterFetchKeep(ok, body, old) ==
  IF ok THEN ArrayOrEmpty(Unwrap(body)) ELSE old

\* the collection a list fetch sets: the unwrapped payload when the try block
\* ran through, the empty list from the catch block
ListAfterFetch(ok, body, old) ==
  IF ok THEN ArrayOrEmpty(Unwrap(body)) ELSE <<>>

\* a handleSubmit that always creates
CreatesAlways(edited) == TRUE

\* if (editingProduct) { update } else { create }
Creates(edited) == ~Truthy(edited)

\* handleDelete without its confirmation
ProceedsUnasked(confirmed) == TRUE

\* if (!confirm(...)) return
Proceeds(confirmed) == confirmed

(***************************************************************************)
(* State                                                                   *)
(***************************************************************************)
VARIABLES
  localStorage,     \* value under the key admin_token, or NoToken
  documentCookie,   \* the cookie jar
  pathname,         \* window.location.pathname
  navPending,       \* window.location.href = '/login' assigned, page not yet unloaded
  mounted,          \* AuthProvider's mount effect has run
  user, isAuthenticated, isLoading,   \* AuthProvider state
  screen,           \* what the route table renders: login, spinner or children
  dashboard,        \* Dashboard: st is off, mounting, loading or ready; req its request
  stats,            \* Dashboard state
  inflight,         \* requests sent and not yet answered
  nextId,           \* id of the next request of this page load
  lastReq,          \* the request sent last, with the storage it was sent from
  lastOp,           \* the operation completed last: its input, the state it started
                    \* from and what the response interceptor did for it
  slugIn, slugOut,  \* generateSlug's argument and result
  slugDone,         \* generateSlug has returned
  page,             \* the resource page on screen, "none" when there is none
  db,               \* the backend's collection behind the page
  items,            \* the page's collection: products, categories, faqs, ...
  categoryList,     \* Products: categories
  pageLoading,      \* the page's loading flag
  showModal,        \* the page's modal is shown
  editing,          \* editingProduct, editingCategory, editingFAQ, editingSection
  formData,         \* the page's form state
  saving,           \* the page's saving flag
  uploading,        \* Products: uploadingImages; HeroSettings: uploading
  selectedOrder,    \* Orders: the order in the detail view
  settings,         \* HeroSettings: settings
  pending,          \* the page's requests sent and not yet answered
  started,          \* requests the user's actions have started on the page
  lastAct,          \* the page handler that ran last: its input, the state it
                    \* started from, the requests it sent, its notifications
  latest            \* of the list fetches answered so far, the one sent last:
                    \* its id and the collection it set

vars ==
  <<localStorage, documentCookie, pathname, navPending, mounted, user,
    isAuthenticated, isLoading, screen, dashboard, stats, inflight, nextId,
    lastReq, lastOp, slugIn, slugOut, slugDone, page, db, items,
    categoryList, pageLoading, showModal, editing, formData, saving, uploading,
    selectedOrder, settings, pending, started, lastAct, latest>>
slugVars == <<slugIn, slugOut, slugDone>>
pageVars ==
  <<page, db, items, categoryList, pageLoading, showModal, editing,
    formData, saving, uploading, selectedOrder, settings, pending, started,
    lastAct, latest>>

NoReq == [id |-> 0, url |-> "", auth |-> NoHeader, ls |-> NoToken, jar |-> <<>>]
NoOp ==
  [op |-> "", status |-> 0, body |-> Undefined, threw |-> FALSE,
   loggedOut |-> FALSE, removes |-> 0, expires |-> 0, navs |-> 0,
   ls |-> NoToken, jar |-> <<>>, user |-> Null, auth |-> FALSE,
   loading |-> FALSE, path |-> "", nav |-> FALSE]

\* status is 0 for an operation that handles no response; removes and
\* expires count every removeItem and every cookie expiry the operation runs:
\* the response interceptor's and, when the operation calls it, logout()'s
Op(name, status, body, threw, loggedOut) ==
  LET i == ResponseInterceptor(status, localStorage, documentCookie, pathname)
      out == IF loggedOut THEN 1 ELSE 0
  IN [op |-> name, status |-> status, body |-> body, threw |-> threw,
      loggedOut |-> loggedOut, removes |-> i.removes + out,
      expires |-> i.expires + out,
      navs |-> i.navs, ls |-> localStorage, jar |-> documentCookie,
      user |-> user, auth |-> isAuthenticated, loading |-> isLoading,
      path |-> pathname, nav |-> navPending]

DashOff == [st |-> "off", req |-> 0]

NoAct ==
  [op |-> "", arg |-> Undefined, status |-> 0, sent |-> <<>>, notes |-> <<>>,
   req |-> Undefined, pre |-> Undefined]

\* no list fetch answered yet
NoFetch == [id |-> 0, items |-> <<>>]

\* no resource page on screen
PageOff ==
  /\ page = "none"
  /\ db = <<>>
  /\ items = <<>>
  /\ categoryList = <<>>
  /\ pageLoading = TRUE
  /\ showModal = FALSE
  /\ editing = Null
  /\ formData = Undefined
  /\ saving = FALSE
  /\ uploading = FALSE
  /\ selectedOrder = Null
  /\ settings = Null
  /\ pending = {}
  /\ started = 0
  /\ lastAct = NoAct
  /\ latest = NoFetch

\* the state a page load starts from: useState initial values, first render
Init ==
  /\ localStorage \in {NoToken, "t1"}
  /\ documentCookie \in Jars
  /\ pathname \in Routes
  /\ navPending = FALSE
  /\ mounted = FALSE
  /\ user = Null
  /\ isAuthenticated = FALSE
  /\ isLoading = TRUE
  /\ screen = Element(pathname, FALSE, TRUE)
  /\ dashboard = DashOff
  /\ stats = Null
  /\ inflight = {}
  /\ nextId = 1
  /\ lastReq = NoReq
  /\ lastOp = NoOp
  /\ slugIn = <<>>
  /\ slugOut = <<>>
  /\ slugDone = FALSE
  /\ PageOff

(***************************************************************************)
(* Helpers shared by the actions                                           *)
(***************************************************************************)
\* the request as it leaves the client, after the request interceptor
Request(url, ls, jar) ==
  [id |-> nextId, url |-> url, auth |-> RequestInterceptor(ls, jar)]

Sent(url, ls, jar) ==
  [id |-> nextId, url |-> url, auth |-> RequestInterceptor(ls, jar),
   ls |-> ls, jar |-> jar]

\* re-render after a state change: guard, redirect, Dashboard mount/unmount
\* (an unmounted Dashboard loses its state)
Render(path, auth, loading) ==
  /\ pathname' = PathAfterRender(path, auth, loading)
  /\ screen' = ScreenAfterRender(path, auth, loading)
  /\ LET shown == screen' = "children" /\ pathname' = "/"
     IN /\ dashboard' = IF ~shown THEN DashOff
                        ELSE IF dashboard.st = "off"
                             THEN [st |-> "mounting", req |-> 0]
                             ELSE dashboard
        /\ stats' = IF shown THEN stats ELSE Null

\* logout() without its removeItem
LogoutLsKeep(ls) == ls

\* logout(): localStorage.removeItem('admin_token')
LogoutLs(ls) == NoToken
\* logout() without its cookie expiry
LogoutJarKeep(jar) == jar

\* logout(): document.cookie = "admin_token=; path=/; expires=..."
LogoutJar(jar) == ExpireCookie(jar, "admin_token")

\* the role test against a misspelt role
IsAdminMisspelt(userData) == Get(userData, "role") = Str("Admin")

\* fetchUser: userData.role === 'admin'
IsAdmin(userData) == Get(userData, "role") = Str("admin")

\* login without its role test
LoginAdmittedAnyUser(userData) == Truthy(userData)

\* login: neither `!userData` nor `userData.role !== 'admin'` throws
LoginAdmitted(userData) == Truthy(userData) /\ Get(userData, "role") = Str("admin")

\* login without its cookie write
LoginJarNone(jar, tok) == jar

\* login: document.cookie = `admin_token=${access_token}; path=/; max-age=...`
LoginJar(jar, tok) == SetCookie(jar, TokenCookie(tok))

(***************************************************************************)
(* AuthProvider                                                            *)
(***************************************************************************)
\* useEffect(..., []) of AuthProvider
RestoredTokenNoCookie(ls, jar) == ls

\* the token the mount effect works with: local storage's, or failing that
\* the cookie's
RestoredToken(ls, jar) ==
  LET c == FindCookie(jar, "admin_token")
  IN IF ls = NoToken /\ c # NoToken THEN c ELSE ls

AuthMount ==
  /\ ~mounted
  /\ mounted' = TRUE
  /\ LET restored == RestoredToken(localStorage, documentCookie)
     IN /\ localStorage' = restored
        /\ IF restored # NoToken
           THEN /\ nextId <= MaxReq
                /\ inflight' = inflight \cup {Request("/users/me", restored, documentCookie)}
                /\ lastReq' = Sent("/users/me", restored, documentCookie)
                /\ nextId' = nextId + 1
                /\ isLoading' = isLoading
           ELSE /\ isLoading' = FALSE
                /\ UNCHANGED <<inflight, lastReq, nextId>>
  /\ Render(pathname, isAuthenticated, isLoading')
  /\ lastOp' = Op("mount", 0, Undefined, FALSE, FALSE)
  /\ UNCHANGED <<documentCookie, navPending, user, isAuthenticated, slugVars, pageVars>>

\* fetchUser, from the answer to /users/me to the end of its finally block
FetchUserResolve(r, status, body) ==
  /\ r \in inflight
  /\ r.url = "/users/me"
  /\ inflight' = inflight \ {r}
  /\ LET i == ResponseInterceptor(status, localStorage, documentCookie, pathname)
         ok == status = 200 /\ ~Throws(body) /\ ~Throws(Unwrap(body))
         userData == Unwrap(body)
         admin == ok /\ IsAdmin(userData)
     IN /\ navPending' = (navPending \/ i.navs > 0)
        /\ IF admin
           THEN /\ user' = userData
                /\ isAuthenticated' = TRUE
                /\ localStorage' = i.ls
                /\ documentCookie' = i.jar
           ELSE /\ user' = Null
                /\ isAuthenticated' = FALSE
                /\ localStorage' = LogoutLs(i.ls)
                /\ documentCookie' = LogoutJar(i.jar)
        /\ isLoading' = FALSE
        /\ lastOp' = Op("fetchUser", status, body, FALSE, ~admin)
  /\ Render(pathname, isAuthenticated', isLoading')
  /\ UNCHANGED <<mounted, nextId, lastReq, slugVars, pageVars>>

\* login(email, password) up to its await
Login ==
  /\ mounted
  /\ pathname = LoginPath
  /\ nextId <= MaxReq
  /\ inflight' = inflight \cup {Request("/auth/login", localStorage, documentCookie)}
  /\ lastReq' = Sent("/auth/login", localStorage, documentCookie)
  /\ nextId' = nextId + 1
  /\ lastOp' = Op("loginCall", 0, Undefined, FALSE, FALSE)
  /\ UNCHANGED <<localStorage, documentCookie, pathname, navPending, mounted,
                 user, isAuthenticated, isLoading, screen, dashboard, stats,
                 slugVars, pageVars>>

\* login, from the answer to /auth/login to its return or throw
LoginResolve(r, status, body) ==
  /\ r \in inflight
  /\ r.url = "/auth/login"
  /\ inflight' = inflight \ {r}
  /\ LET i == ResponseInterceptor(status, localStorage, documentCookie, pathname)
         got == status = 200 /\ ~Throws(body) /\ ~Throws(Unwrap(body))
         responseData == Unwrap(body)
         userData == Get(responseData, "user")
         access_token == Get(responseData, "access_token")
         admin == got /\ LoginAdmitted(userData)
     IN /\ navPending' = (navPending \/ i.navs > 0)
        /\ IF admin
           THEN /\ localStorage' = access_token.s
                /\ documentCookie' = LoginJar(i.jar, access_token.s)
                /\ user' = userData
                /\ isAuthenticated' = TRUE
           ELSE /\ localStorage' = i.ls
                /\ documentCookie' = i.jar
                /\ UNCHANGED <<user, isAuthenticated>>
        /\ lastOp' = Op("login", status, body, ~admin, FALSE)
  /\ Render(pathname, isAuthenticated', isLoading)
  /\ UNCHANGED <<mounted, isLoading, nextId, lastReq, slugVars, pageVars>>

\* logout(), from the Layout's button
Logout ==
  /\ mounted
  /\ screen = "children"
  /\ localStorage' = LogoutLs(localStorage)
  /\ documentCookie' = LogoutJar(documentCookie)
  /\ user' = Null
  /\ isAuthenticated' = FALSE
  /\ isLoading' = FALSE
  /\ lastOp' = Op("logout", 0, Undefined, FALSE, TRUE)
  /\ Render(pathname, FALSE, FALSE)
  /\ UNCHANGED <<navPending, mounted, inflight, nextId, lastReq, slugVars, pageVars>>

(***************************************************************************)
(* Router and page load                                                    *)
(***************************************************************************)
\* client-side navigation: a sidebar Link, the address bar's history, the
\* login page's redirect
Navigate(path) ==
  /\ mounted
  /\ path \in Routes
  /\ path # pathname
  /\ Render(path, isAuthenticated, isLoading)
  /\ lastOp' = Op("navigate", 0, Undefined, FALSE, FALSE)
  /\ UNCHANGED <<localStorage, documentCookie, navPending, mounted, user,
                 isAuthenticated, isLoading, inflight, nextId, lastReq,
                 slugVars, pageVars>>

\* the document load that window.location.href = '/login' started: the old
\* page is unloaded with its requests, the application starts again
PageLoad ==
  /\ navPending
  /\ navPending' = FALSE
  /\ pathname' = LoginPath
  /\ mounted' = FALSE
  /\ user' = Null
  /\ isAuthenticated' = FALSE
  /\ isLoading' = TRUE
  /\ screen' = Element(LoginPath, FALSE, TRUE)
  /\ dashboard' = DashOff
  /\ stats' = Null
  /\ inflight' = {}
  /\ nextId' = 1
  /\ lastReq' = NoReq
  /\ lastOp' = NoOp
  /\ page' = "none"
  /\ items' = <<>>
  /\ categoryList' = <<>>
  /\ pageLoading' = TRUE
  /\ showModal' = FALSE
  /\ editing' = Null
  /\ formData' = Undefined
  /\ saving' = FALSE
  /\ uploading' = FALSE
  /\ selectedOrder' = Null
  /\ settings' = Null
  /\ pending' = {}
  /\ started' = 0
  /\ lastAct' = NoAct
  /\ latest' = NoFetch
  /\ UNCHANGED <<localStorage, documentCookie, slugVars, db>>

(***************************************************************************)
(* Dashboard                                                               *)
(***************************************************************************)
\* useEffect(..., []) of Dashboard: fetchStats up to its await
DashboardMount ==
  /\ dashboard.st = "mounting"
  /\ nextId <= MaxReq
  /\ inflight' = inflight \cup {Request("/admin/dashboard", localStorage, documentCookie)}
  /\ lastReq' = Sent("/admin/dashboard", localStorage, documentCookie)
  /\ dashboard' = [st |-> "loading", req |-> nextId]
  /\ nextId' = nextId + 1
  /\ lastOp' = Op("fetchStatsCall", 0, Undefined, FALSE, FALSE)
  /\ UNCHANGED <<localStorage, documentCookie, pathname, navPending, mounted,
                 user, isAuthenticated, isLoading, screen, stats, slugVars, pageVars>>

\* fetchStats, from the answer to /admin/dashboard to the end of its finally
\* block; the setters of a Dashboard that was unmounted meanwhile do nothing
FetchStatsResolve(r, status, body) ==
  /\ r \in inflight
  /\ r.url = "/admin/dashboard"
  /\ inflight' = inflight \ {r}
  /\ LET i == ResponseInterceptor(status, localStorage, documentCookie, pathname)
         ok == status = 200 /\ ~Throws(body)
         live == dashboard.st = "loading" /\ dashboard.req = r.id
     IN /\ navPending' = (navPending \/ i.navs > 0)
        /\ localStorage' = i.ls
        /\ documentCookie' = i.jar
        /\ stats' = IF ~live THEN stats ELSE IF ok THEN Unwrap(body) ELSE Null
        /\ dashboard' = IF live THEN [st |-> "ready", req |-> r.id] ELSE dashboard
        /\ lastOp' = Op(IF live THEN "fetchStats" ELSE "fetchStatsGone", status, body,
                       FALSE, FALSE)
  /\ UNCHANGED <<pathname, mounted, user, isAuthenticated, isLoading, screen,
                 nextId, lastReq, slugVars, pageVars>>

(***************************************************************************)
(* Specification of the application                                        *)
(***************************************************************************)
Next ==
  \/ AuthMount
  \/ \E r \in inflight, st \in Statuses, b \in MeBodies : FetchUserResolve(r, st, b)
  \/ Login
  \/ \E r \in inflight, st \in Statuses, b \in LoginBodies : LoginResolve(r, st, b)
  \/ Logout
  \/ \E p \in Routes : Navigate(p)
  \/ PageLoad
  \/ DashboardMount
  \/ \E r \in inflight, st \in Statuses, b \in StatsBodies : FetchStatsResolve(r, st, b)

Spec == Init /\ [][Next]_vars

(***************************************************************************)
(* The same application in a browser whose local storage is cleared from   *)
(* outside the page (site-data clearing, another tab of the origin)        *)
(***************************************************************************)
StorageCleared ==
  /\ localStorage # NoToken
  /\ localStorage' = NoToken
  /\ lastOp' = Op("storageCleared", 0, Undefined, FALSE, FALSE)
  /\ UNCHANGED <<documentCookie, pathname, navPending, mounted, user,
                 isAuthenticated, isLoading, screen, dashboard, stats,
                 inflight, nextId, lastReq, slugVars, pageVars>>

EnvNext == Next \/ StorageCleared

EnvSpec == Init /\ [][EnvNext]_vars

(***************************************************************************)
(* Specification of generateSlug on its own                                *)
(***************************************************************************)
NameChars == {"a", "P", "5", " ", "-", "!"}
RECURSIVE SeqsUpTo(_, _)
SeqsUpTo(S, n) ==
  IF n = 0 THEN {<<>>}
  ELSE LET shorter == SeqsUpTo(S, n - 1)
       IN shorter \cup {Append(s, c) : s \in {x \in shorter : Len(x) = n - 1}, c \in S}

IPhone15Pro ==
  <<"i", "P", "h", "o", "n", "e", " ", "1", "5", " ", "P", "r", "o", "!">>
Names == SeqsUpTo(NameChars, MaxNameLen) \cup {IPhone15Pro}

SlugInit ==
  /\ localStorage = NoToken
  /\ documentCookie = <<>>
  /\ pathname = "/products"
  /\ navPending = FALSE
  /\ mounted = FALSE
  /\ user = Null
  /\ isAuthenticated = FALSE
  /\ isLoading = TRUE
  /\ screen = "spinner"
  /\ dashboard = DashOff
  /\ stats = Null
  /\ inflight = {}
  /\ nextId = 1
  /\ lastReq = NoReq
  /\ lastOp = NoOp
  /\ slugIn \in Names
  /\ slugOut = <<>>
  /\ slugDone = FALSE
  /\ PageOff

\* a call of generateSlug(name)
Slugify ==
  /\ ~slugDone
  /\ slugOut' = generateSlug(slugIn)
  /\ slugDone' = TRUE
  /\ UNCHANGED <<localStorage, documentCookie, pathname, navPending, mounted,
                 user, isAuthenticated, isLoading, screen, dashboard, stats,
                 inflight, nextId, lastReq, lastOp, slugIn, pageVars>>

SlugNext == Slugify

SlugSpec == SlugInit /\ [][SlugNext]_vars

(***************************************************************************)
(* The resource pages                                                      *)
(***************************************************************************)
\* what no handler of a resource page changes
appVars ==
  <<pathname, mounted, user, isAuthenticated, isLoading, screen, dashboard,
    stats, inflight, lastReq, lastOp, slugVars>>
storeVars == <<localStorage, documentCookie, navPending>>

\* the response interceptor's failure branch: every answer but a 2xx is
\* rejected to the caller, a 401 included
RejectedSwallow401(status) == status \notin {200, 401}
Rejected(status) == status # 200

\* the response interceptor acting on the answer to a page's request
Intercept(status) ==
  LET i == ResponseInterceptor(status, localStorage, documentCookie, pathname)
  IN /\ localStorage' = i.ls
     /\ documentCookie' = i.jar
     /\ navPending' = (navPending \/ i.navs > 0)

\* a request as it leaves the client; ctx holds what the awaiting handler's
\* closure captured
PageRequest(id, kind, method, url, data, ctx) ==
  [id |-> id, kind |-> kind, method |-> method, url |-> url, data |-> data,
   auth |-> RequestInterceptor(localStorage, documentCookie), ctx |-> ctx]

\* fetchProducts(), fetchCategories(), fetchFAQs(), fetchAboutUs(),
\* fetchOrders(), fetchSettings(): the GET they send
ListRequest(id, p, by, of) ==
  PageRequest(id, IF p = "hero-settings" THEN "settings" ELSE "list", "GET",
              Url(ListPath(p), Undefined), Undefined, [by |-> by, of |-> of])

\* the state a handler's continuation started from, for the handlers whose
\* effect is stated against it
PreState(op) ==
  CASE op = "fetchList" -> [items |-> items]
    [] op = "submitDone" ->
         [showModal |-> showModal, editing |-> editing, formData |-> formData]
    [] op = "fetchSettings" -> [settings |-> settings]
    [] op = "uploadDone" -> [formData |-> formData]
    [] op = "statusDone" ->
         [selectedOrder |-> selectedOrder, showModal |-> showModal]
    [] OTHER -> Undefined

\* the record of a handler's run: its argument, the answer it handled, the
\* requests it sent and the notifications it added
Act(op, arg, status, req, sent, notes) ==
  [op |-> op, arg |-> arg, status |-> status, req |-> req, sent |-> sent,
   notes |-> notes, pre |-> PreState(op)]

\* the page component is rendered and past its loading spinner, and the
\* document is not being replaced
Shown(p) == page = p /\ ~pageLoading /\ ~navPending

\* the first render of the routed page and its mount effect, which fetches
\* the list (Products fetches the categories too)
PageMount(p) ==
  /\ page = "none"
  /\ screen = "children"
  /\ pathname = PagePath(p)
  /\ LET more == IF p = "products" THEN 1 ELSE 0
         list == ListRequest(nextId, p, "mount", Undefined)
         cats == PageRequest(nextId + 1, "categories", "GET",
                             Url("/categories", Undefined), Undefined, Undefined)
         sent == IF p = "products" THEN <<list, cats>> ELSE <<list>>
     IN /\ pending' = pending \cup Range(sent)
        /\ nextId' = nextId + 1 + more
        /\ lastAct' = Act("mount", Str(p), 0, Undefined, sent, <<>>)
  /\ page' = p
  /\ formData' = EmptyForm(p)
  /\ UNCHANGED <<db, items, categoryList, pageLoading, showModal, editing,
                 saving, uploading, selectedOrder, settings, started, latest, appVars, storeVars>>

\* fetchProducts, fetchCategories (Categories), fetchFAQs, fetchAboutUs and
\* fetchOrders, from the answer to the end of the finally block
FetchListResolve(r, status, body) ==
  /\ r \in pending
  /\ r.kind = "list"
  /\ pending' = pending \ {r}
  /\ Intercept(status)
  /\ LET ok == ~Rejected(status) /\ ~Throws(body)
     IN /\ items' = ListAfterFetch(ok, body, items)
        /\ lastAct' = Act("fetchList", body, status, r, <<>>, <<>>)
        /\ pageLoading' = FlagAfter(ok)
        /\ latest' = IF r.id > latest.id
                      THEN [id |-> r.id, items |-> ListAfterFetch(ok, body, items)]
                      ELSE latest
  /\ UNCHANGED <<page, db, categoryList, showModal, editing, formData, saving,
                 uploading, selectedOrder, settings, nextId, started, appVars>>

\* Products.fetchCategories, from the answer on
FetchCategoriesResolve(r, status, body) ==
  /\ r \in pending
  /\ r.kind = "categories"
  /\ pending' = pending \ {r}
  /\ Intercept(status)
  /\ LET ok == ~Rejected(status) /\ ~Throws(body)
     IN /\ categoryList' = ListAfterFetch(ok, body, categoryList)
        /\ lastAct' = Act("fetchCategories", body, status, r, <<>>, <<>>)
  /\ UNCHANGED <<page, db, items, pageLoading, showModal, editing, formData,
                 saving, uploading, selectedOrder, settings, nextId, started, latest, appVars>>

OpenAddModal ==
  /\ page \in CrudPages
  /\ Shown(page)
  /\ ~showModal
  /\ editing' = Null
  /\ formData' = EmptyForm(page)
  /\ showModal' = TRUE
  /\ lastAct' = Act("openAddModal", Undefined, 0, Undefined, <<>>, <<>>)
  /\ UNCHANGED <<page, db, items, categoryList, pageLoading, saving, uploading,
                 selectedOrder, settings, pending, nextId, started, latest, appVars, storeVars>>

OpenEditModal(rec) ==
  /\ page \in CrudPages
  /\ Shown(page)
  /\ ~showModal
  /\ rec \in Range(items)
  /\ editing' = rec
  /\ IF FormOf(page, rec) = TypeError
     THEN UNCHANGED <<formData, showModal>>
     ELSE /\ formData' = FormOf(page, rec)
          /\ showModal' = TRUE
  /\ lastAct' = Act("openEditModal", rec, 0, Undefined, <<>>, <<>>)
  /\ UNCHANGED <<page, db, items, categoryList, pageLoading, saving, uploading,
                 selectedOrder, settings, pending, nextId, started, latest, appVars, storeVars>>

\* closeModal of the four pages with a form
CloseModal ==
  /\ page \in CrudPages
  /\ Shown(page)
  /\ showModal
  /\ showModal' = FALSE
  /\ editing' = Null
  /\ formData' = ClosedForm(page, formData)
  /\ lastAct' = Act("closeModal", Undefined, 0, Undefined, <<>>, <<>>)
  /\ UNCHANGED <<page, db, items, categoryList, pageLoading, saving, uploading,
                 selectedOrder, settings, pending, nextId, started, latest, appVars, storeVars>>

\* an input of the modal's form changes the form state
ChangeForm ==
  /\ page \in CrudPages
  /\ Shown(page)
  /\ showModal
  /\ \E form \in FormEdits(page, formData, editing) :
       /\ form # formData
       /\ formData' = form
  /\ lastAct' = Act("change", Undefined, 0, Undefined, <<>>, <<>>)
  /\ UNCHANGED <<page, db, items, categoryList, pageLoading, showModal, editing,
                 saving, uploading, selectedOrder, settings, pending, nextId,
                 started, latest, appVars, storeVars>>

\* Products.addImageField
AddImageField ==
  /\ Shown("products")
  /\ showModal
  /\ Len(Get(formData, "images").items) < MaxImages
  /\ formData' = With(formData, "images",
                      Arr(Append(Get(formData, "images").items, Text(<<>>))))
  /\ lastAct' = Act("addImageField", Undefined, 0, Undefined, <<>>, <<>>)
  /\ UNCHANGED <<page, db, items, categoryList, pageLoading, showModal, editing,
                 saving, uploading, selectedOrder, settings, pending, nextId,
                 started, latest, appVars, storeVars>>

\* Products.removeImageField
RemoveImageField(index) ==
  /\ Shown("products")
  /\ showModal
  /\ index \in 1..Len(Get(formData, "images").items)
  /\ LET images == Get(formData, "images").items
         newImages == [i \in 1..(Len(images) - 1) |->
                         IF i < index THEN images[i] ELSE images[i + 1]]
     IN formData' = With(formData, "images",
                         IF Len(newImages) > 0 THEN Arr(newImages)
                         ELSE Arr(<<Text(<<>>)>>))
  /\ lastAct' = Act("removeImageField", Num(index), 0, Undefined, <<>>, <<>>)
  /\ UNCHANGED <<page, db, items, categoryList, pageLoading, showModal, editing,
                 saving, uploading, selectedOrder, settings, pending, nextId,
                 started, latest, appVars, storeVars>>

\* Products.updateImageField
UpdateImageField(index, value) ==
  /\ Shown("products")
  /\ showModal
  /\ index \in 1..Len(Get(formData, "images").items)
  /\ Get(formData, "images").items[index] # value
  /\ formData' = With(formData, "images",
                      Arr([Get(formData, "images").items EXCEPT ![index] = value]))
  /\ lastAct' = Act("updateImageField", Num(index), 0, Undefined, <<>>, <<>>)
  /\ UNCHANGED <<page, db, items, categoryList, pageLoading, showModal, editing,
                 saving, uploading, selectedOrder, settings, pending, nextId,
                 started, latest, appVars, storeVars>>

\* a submit button that stays enabled while saving
CanSubmitAlways(flag) == TRUE

\* the submit button: disabled={saving}
CanSubmit(flag) == ~flag

\* the modal's form can be submitted
SubmitOffered ==
  /\ page \in CrudPages
  /\ Shown(page)
  /\ showModal
  /\ CanSubmit(saving)

\* handleSubmit up to its await: the create or the update is sent
HandleSubmit ==
  /\ SubmitOffered
  /\ started < MaxPageReq
  /\ saving' = TRUE
  /\ LET req == IF Creates(editing)
                THEN PageRequest(nextId, "submit", "POST",
                                 Url(ItemPath(page), Undefined),
                                 DataToSend(page, formData), [editing |-> editing])
                ELSE PageRequest(nextId, "submit", UpdateMethod(page),
                                 Url(ItemPath(page), Get(editing, KeyField(page))),
                                 DataToSend(page, formData), [editing |-> editing])
     IN /\ pending' = pending \cup {req}
        /\ lastAct' = Act("handleSubmit", Undefined, 0, Undefined, <<req>>, <<>>)
  /\ nextId' = nextId + 1
  /\ started' = started + 1
  /\ UNCHANGED <<page, db, items, categoryList, pageLoading, showModal, editing,
                 formData, uploading, selectedOrder, settings, latest, appVars, storeVars>>

\* handleSubmit from the answer on: on success the notification, the list
\* fetch and closeModal; on failure the error notification; setSaving(false)
SubmitResolve(r, status) ==
  /\ r \in pending
  /\ r.kind = "submit"
  /\ Intercept(status)
  /\ saving' = FlagAfter(~Rejected(status))
  /\ IF ~Rejected(status)
     THEN LET list == ListRequest(nextId, page, "submit", r.url.of)
          IN /\ db' = ServerApply(page, db, r)
             /\ pending' = (pending \ {r}) \cup {list}
             /\ nextId' = nextId + 1
             /\ showModal' = FALSE
             /\ editing' = Null
             /\ formData' = ClosedForm(page, formData)
             /\ lastAct' = Act("submitDone", Undefined, status, r, <<list>>,
                               <<"success">>)
     ELSE /\ pending' = pending \ {r}
          /\ lastAct' = Act("submitDone", Undefined, status, r, <<>>, <<"error">>)
          /\ UNCHANGED <<db, nextId, showModal, editing, formData>>
  /\ UNCHANGED <<page, items, categoryList, pageLoading, uploading,
                 selectedOrder, settings, started, latest, appVars>>

\* handleDelete up to its await: confirm(), and the DELETE when confirmed
HandleDelete(rec, confirmed) ==
  /\ page \in CrudPages
  /\ Shown(page)
  /\ ~showModal
  /\ rec \in Range(items)
  /\ IF Proceeds(confirmed)
     THEN LET req == PageRequest(nextId, "delete", "DELETE",
                                 Url(ItemPath(page), Get(rec, KeyField(page))),
                                 Undefined, Undefined)
          IN /\ started < MaxPageReq
             /\ pending' = pending \cup {req}
             /\ nextId' = nextId + 1
             /\ started' = started + 1
             /\ lastAct' = Act("handleDelete", [rec |-> rec, confirmed |-> confirmed],
                               0, Undefined, <<req>>, <<>>)
     ELSE /\ lastAct' = Act("handleDelete", [rec |-> rec, confirmed |-> confirmed],
                            0, Undefined, <<>>, <<>>)
          /\ UNCHANGED <<pending, nextId, started>>
  /\ UNCHANGED <<page, db, items, categoryList, pageLoading, showModal, editing,
                 formData, saving, uploading, selectedOrder, settings, latest, appVars,
                 storeVars>>

\* handleDelete from the answer on
DeleteResolve(r, status) ==
  /\ r \in pending
  /\ r.kind = "delete"
  /\ Intercept(status)
  /\ IF ~Rejected(status)
     THEN LET list == ListRequest(nextId, page, "delete", r.url.of)
          IN /\ db' = ServerApply(page, db, r)
             /\ pending' = (pending \ {r}) \cup {list}
             /\ nextId' = nextId + 1
             /\ lastAct' = Act("deleteDone", Undefined, status, r, <<list>>,
                               <<"success">>)
     ELSE /\ pending' = pending \ {r}
          /\ lastAct' = Act("deleteDone", Undefined, status, r, <<>>, <<"error">>)
          /\ UNCHANGED <<db, nextId>>
  /\ UNCHANGED <<page, items, categoryList, pageLoading, showModal, editing,
                 formData, saving, uploading, selectedOrder, settings, started, latest, appVars>>

\* Products.handleImageUpload up to its await
HandleImageUpload(file) ==
  /\ Shown("products")
  /\ showModal
  /\ ~uploading
  /\ IF Refused(file)
     THEN /\ lastAct' = Act("handleImageUpload", Str(file), 0, Undefined, <<>>,
                            <<"error">>)
          /\ UNCHANGED <<uploading, pending, nextId, started>>
     ELSE LET req == PageRequest(nextId, "upload", "POST",
                                 Url("/products/images", Undefined), Str(file),
                                 [formData |-> formData])
          IN /\ started < MaxPageReq
             /\ uploading' = TRUE
             /\ pending' = pending \cup {req}
             /\ nextId' = nextId + 1
             /\ started' = started + 1
             /\ lastAct' = Act("handleImageUpload", Str(file), 0, Undefined,
                               <<req>>, <<>>)
  /\ UNCHANGED <<page, db, items, categoryList, pageLoading, showModal, editing,
                 formData, saving, selectedOrder, settings, latest, appVars, storeVars>>

\* Products.handleImageUpload from the answer on; the form state it spreads
\* is the one of the render the file was chosen in
UploadResolve(r, status, body) ==
  /\ r \in pending
  /\ r.kind = "upload"
  /\ pending' = pending \ {r}
  /\ Intercept(status)
  /\ LET ok == ~Rejected(status) /\ ~Throws(body)
         old == r.ctx.formData
         current == SelectSeq(Get(old, "images").items, LAMBDA img : img.cs # <<>>)
     IN /\ formData' = IF ok
                       THEN With(old, "images",
                                 Arr(current \o UploadedImages(body).items))
                       ELSE formData
        /\ uploading' = FlagAfter(ok)
        /\ lastAct' = Act("uploadDone", body, status, r, <<>>,
                          IF ok THEN <<"success">> ELSE <<"error">>)
  /\ UNCHANGED <<page, db, items, categoryList, pageLoading, showModal, editing,
                 saving, selectedOrder, settings, nextId, started, latest, appVars>>

\* HeroSettings.fetchSettings from the answer on: the catch block only logs
FetchSettingsResolve(r, status, body) ==
  /\ r \in pending
  /\ r.kind = "settings"
  /\ pending' = pending \ {r}
  /\ Intercept(status)
  /\ LET ok == ~Rejected(status) /\ ~Throws(body)
     IN /\ settings' = IF ok THEN Unwrap(body) ELSE settings
        /\ pageLoading' = FlagAfter(ok)
        /\ lastAct' = Act("fetchSettings", body, status, r, <<>>, <<>>)
  /\ UNCHANGED <<page, db, items, categoryList, showModal, editing, formData,
                 saving, uploading, selectedOrder, nextId, started, latest, appVars>>

\* HeroSettings.handleImageUpload up to its await
HeroUpload(file) ==
  /\ Shown("hero-settings")
  /\ ~uploading
  /\ IF Refused(file)
     THEN /\ lastAct' = Act("heroUpload", Str(file), 0, Undefined, <<>>, <<"error">>)
          /\ UNCHANGED <<uploading, pending, nextId, started>>
     ELSE LET req == PageRequest(nextId, "heroUpload", "POST",
                                 Url("/settings/hero/image", Undefined), Str(file),
                                 Undefined)
          IN /\ started < MaxPageReq
             /\ uploading' = TRUE
             /\ pending' = pending \cup {req}
             /\ nextId' = nextId + 1
             /\ started' = started + 1
             /\ lastAct' = Act("heroUpload", Str(file), 0, Undefined, <<req>>, <<>>)
  /\ UNCHANGED <<page, db, items, categoryList, pageLoading, showModal, editing,
                 formData, saving, selectedOrder, settings, latest, appVars, storeVars>>

\* HeroSettings.handleImageUpload from the answer on
HeroUploadResolve(r, status) ==
  /\ r \in pending
  /\ r.kind = "heroUpload"
  /\ Intercept(status)
  /\ uploading' = FlagAfter(~Rejected(status))
  /\ IF ~Rejected(status)
     THEN LET fetch == ListRequest(nextId, page, "upload", Undefined)
          IN /\ db' = <<Hero("b.png")>>
             /\ pending' = (pending \ {r}) \cup {fetch}
             /\ nextId' = nextId + 1
             /\ lastAct' = Act("heroUploadDone", Undefined, status, r, <<fetch>>,
                               <<"success">>)
     ELSE /\ pending' = pending \ {r}
          /\ lastAct' = Act("heroUploadDone", Undefined, status, r, <<>>,
                            <<"error">>)
          /\ UNCHANGED <<db, nextId>>
  /\ UNCHANGED <<page, items, categoryList, pageLoading, showModal, editing,
                 formData, saving, selectedOrder, settings, started, latest, appVars>>

\* Orders: {showModal && selectedOrder && ( ... )}
DetailOpen == showModal /\ Truthy(selectedOrder)

\* updateStatus up to its await, called by a status select (of the list or
\* of the detail view) or by closeOrder (closing)
UpdateStatus(view, order, s, closing) ==
  /\ Shown("orders")
  /\ IF view = "detail"
     THEN DetailOpen /\ order = selectedOrder
     ELSE ~DetailOpen /\ order \in Range(items)
  /\ IF closing
     THEN s = "delivered" /\ Open(Get(order, "status"))
     ELSE Str(s) # Get(order, "status")
  /\ started < MaxOrderReq
  /\ LET req == PageRequest(nextId, "status", "PATCH",
                            StatusUrl(Get(order, "id")), Obj([status |-> Str(s)]),
                            [selectedOrder |-> selectedOrder, closing |-> closing])
     IN /\ pending' = pending \cup {req}
        /\ lastAct' = Act("updateStatus",
                          [id |-> Get(order, "id"), from |-> Get(order, "status"),
                           status |-> Str(s), view |-> view, closing |-> closing],
                          0, Undefined, <<req>>, <<>>)
  /\ nextId' = nextId + 1
  /\ started' = started + 1
  /\ UNCHANGED <<page, db, items, categoryList, pageLoading, showModal, editing,
                 formData, saving, uploading, selectedOrder, settings, latest, appVars,
                 storeVars>>

\* { ...selectedOrder, status } when the selectedOrder of the render that
\* called updateStatus is this order; otherwise no update
SelectedAfter(sel, id, status, current) ==
  IF Truthy(sel) /\ Get(sel, "id") = id THEN With(sel, "status", status)
  ELSE current

\* updateStatus from the answer on, and closeOrder after it: updateStatus
\* catches its error, so closeOrder's try block always runs through
StatusResolve(r, status) ==
  /\ r \in pending
  /\ r.kind = "status"
  /\ Intercept(status)
  /\ LET ok == ~Rejected(status)
         list == ListRequest(nextId, page, "status", r.url.of)
         selected == IF ok
                     THEN SelectedAfter(r.ctx.selectedOrder, r.url.of,
                                        Get(r.data, "status"), selectedOrder)
                     ELSE selectedOrder
     IN /\ db' = IF ok THEN ServerApply(page, db, r) ELSE db
        /\ pending' = (pending \ {r}) \cup (IF ok THEN {list} ELSE {})
        /\ nextId' = IF ok THEN nextId + 1 ELSE nextId
        /\ selectedOrder' = IF r.ctx.closing THEN Null ELSE selected
        /\ showModal' = IF r.ctx.closing THEN FALSE ELSE showModal
        /\ lastAct' = Act("statusDone", Undefined, status, r,
                          IF ok THEN <<list>> ELSE <<>>,
                          <<IF ok THEN "success" ELSE "error">>
                            \o (IF r.ctx.closing THEN <<"success">> ELSE <<>>))
  /\ UNCHANGED <<page, items, categoryList, pageLoading, editing, formData,
                 saving, uploading, settings, started, latest, appVars>>

\* openOrderDetails up to its await
OpenOrderDetails(order) ==
  /\ Shown("orders")
  /\ ~DetailOpen
  /\ order \in Range(items)
  /\ started < MaxOrderReq
  /\ LET req == PageRequest(nextId, "detail", "GET",
                            Url("/orders/admin", Get(order, "id")), Undefined,
                            Undefined)
     IN /\ pending' = pending \cup {req}
        /\ lastAct' = Act("openOrderDetails", Get(order, "id"), 0, Undefined,
                          <<req>>, <<>>)
  /\ nextId' = nextId + 1
  /\ started' = started + 1
  /\ UNCHANGED <<page, db, items, categoryList, pageLoading, showModal, editing,
                 formData, saving, uploading, selectedOrder, settings, latest, appVars,
                 storeVars>>

\* openOrderDetails from the answer on
DetailResolve(r, status, body) ==
  /\ r \in pending
  /\ r.kind = "detail"
  /\ pending' = pending \ {r}
  /\ Intercept(status)
  /\ LET ok == ~Rejected(status) /\ ~Throws(body)
     IN /\ selectedOrder' = IF ok THEN Unwrap(body) ELSE selectedOrder
        /\ showModal' = IF ok THEN TRUE ELSE showModal
        /\ lastAct' = Act("detailDone", body, status, r, <<>>,
                          IF ok THEN <<>> ELSE <<"error">>)
  /\ UNCHANGED <<page, db, items, categoryList, pageLoading, editing, formData,
                 saving, uploading, settings, nextId, started, latest, appVars>>

\* Orders.closeModal
CloseOrderModal ==
  /\ Shown("orders")
  /\ DetailOpen
  /\ showModal' = FALSE
  /\ selectedOrder' = Null
  /\ lastAct' = Act("closeModal", Undefined, 0, Undefined, <<>>, <<>>)
  /\ UNCHANGED <<page, db, items, categoryList, pageLoading, editing, formData,
                 saving, uploading, settings, pending, nextId, started, latest, appVars,
                 storeVars>>

\* the page p opened by an admin whose token is stored, rows being the
\* backend's collection behind it
Opened(p, rows) ==
  /\ localStorage = "t1"
  /\ documentCookie = <<TokenCookie("t1")>>
  /\ pathname = PagePath(p)
  /\ db = rows
  /\ navPending = FALSE
  /\ mounted = FALSE
  /\ user = Null
  /\ isAuthenticated = FALSE
  /\ isLoading = TRUE
  /\ screen = Element(pathname, FALSE, TRUE)
  /\ dashboard = DashOff
  /\ stats = Null
  /\ inflight = {}
  /\ nextId = 1
  /\ lastReq = NoReq
  /\ lastOp = NoOp
  /\ slugIn = <<>>
  /\ slugOut = <<>>
  /\ slugDone = FALSE
  /\ page = "none"
  /\ items = <<>>
  /\ categoryList = <<>>
  /\ pageLoading = TRUE
  /\ showModal = FALSE
  /\ editing = Null
  /\ formData = Undefined
  /\ saving = FALSE
  /\ uploading = FALSE
  /\ selectedOrder = Null
  /\ settings = Null
  /\ pending = {}
  /\ started = 0
  /\ lastAct = NoAct
  /\ latest = NoFetch

PageInit == \E p \in Pages : Opened(p, Pool(p))

\* the answers to /users/me tried on a resource page
PageMeBodies == {Envelope(AdminUser), CustomerUser}

PageNext ==
  \/ AuthMount
  \/ \E r \in inflight, st \in PageStatuses, b \in PageMeBodies :
       FetchUserResolve(r, st, IF st = 200 THEN b ELSE Undefined)
  \/ PageLoad
  \/ \E p \in Pages : PageMount(p)
  \/ \E r \in pending, st \in PageStatuses, b \in ListBodies(db) :
       FetchListResolve(r, st, IF st = 200 THEN b ELSE Undefined)
  \/ \E r \in pending, st \in PageStatuses, b \in {Arr(<<Phones>>), Null} :
       FetchCategoriesResolve(r, st, IF st = 200 THEN b ELSE Undefined)
  \/ OpenAddModal
  \/ \E rec \in Range(items) : OpenEditModal(rec)
  \/ CloseModal
  \/ ChangeForm
  \/ HandleSubmit
  \/ \E r \in pending, st \in PageStatuses : SubmitResolve(r, st)
  \/ \E rec \in Range(items), ok \in BOOLEAN : HandleDelete(rec, ok)
  \/ \E r \in pending, st \in PageStatuses : DeleteResolve(r, st)
  \/ \E file \in {"huge", "image"} : HandleImageUpload(file)
  \/ \E r \in pending, st \in PageStatuses, b \in UploadBodies :
       UploadResolve(r, st, IF st = 200 THEN b ELSE Undefined)
  \/ \E r \in pending, st \in PageStatuses, b \in SettingsBodies(db) :
       FetchSettingsResolve(r, st, IF st = 200 THEN b ELSE Undefined)
  \/ \E file \in {"text", "image"} : HeroUpload(file)
  \/ \E r \in pending, st \in PageStatuses : HeroUploadResolve(r, st)
  \/ \E view \in {"list", "detail"}, order \in Range(items) \cup {selectedOrder},
        s \in OrderStatuses, closing \in BOOLEAN :
       UpdateStatus(view, order, s, closing)
  \/ \E r \in pending, st \in PageStatuses : StatusResolve(r, st)
  \/ \E order \in Range(items) : OpenOrderDetails(order)
  \/ \E r \in pending, st \in PageStatuses :
       \E b \in DetailBodies(db, r.url.of) :
         DetailResolve(r, st, IF st = 200 THEN b ELSE Undefined)
  \/ CloseOrderModal

PageSpec == PageInit /\ [][PageNext]_vars

(***************************************************************************)
(* The edit forms on their own: the four pages with a form, over records   *)
(* of every shape the list endpoints return                                *)
(***************************************************************************)
EditInit == \E p \in CrudPages : Opened(p, EditPool(p))

EditNext ==
  \/ AuthMount
  \/ \E r \in inflight, st \in PageStatuses :
       FetchUserResolve(r, st, IF st = 200 THEN Envelope(AdminUser) ELSE Undefined)
  \/ PageLoad
  \/ \E p \in CrudPages : PageMount(p)
  \/ \E r \in pending, st \in PageStatuses :
       FetchListResolve(r, st, IF st = 200 THEN Arr(db) ELSE Undefined)
  \/ \E r \in pending, st \in PageStatuses :
       FetchCategoriesResolve(r, st, IF st = 200 THEN Arr(<<Phones>>) ELSE Undefined)
  \/ \E rec \in Range(items) : OpenEditModal(rec)
  \/ CloseModal
  \/ ChangeForm
  \/ HandleSubmit
  \/ \E r \in pending, st \in PageStatuses : SubmitResolve(r, st)

EditSpec == EditInit /\ [][EditNext]_vars

(***************************************************************************)
(* The Orders list with answers that travel: the backend reads the         *)
(* collection when it handles a list request, the page receives the answer *)
(* later, and answers may overtake one another                             *)
(***************************************************************************)
Served(r) == "body" \in DOMAIN r

\* the backend handles GET /orders/admin/all
Serve(r) ==
  /\ r \in pending
  /\ r.kind = "list"
  /\ ~Served(r)
  /\ pending' = (pending \ {r})
                  \cup {[k \in DOMAIN r \cup {"body"} |->
                           IF k = "body" THEN Arr(db) ELSE r[k]]}
  /\ UNCHANGED <<page, db, items, categoryList, pageLoading, showModal, editing,
                 formData, saving, uploading, selectedOrder, settings, nextId,
                 started, lastAct, latest, appVars, storeVars>>

RaceInit == Opened("orders", Pool("orders"))

RaceNext ==
  \/ AuthMount
  \/ \E r \in inflight : FetchUserResolve(r, 200, Envelope(AdminUser))
  \/ PageMount("orders")
  \/ \E r \in pending : Serve(r)
  \/ \E r \in pending : Served(r) /\ FetchListResolve(r, 200, r.body)
  \/ \E order \in Range(items), s \in OrderStatuses :
       UpdateStatus("list", order, s, FALSE)
  \/ \E r \in pending, st \in {200, 500} : StatusResolve(r, st)

RaceSpec == RaceInit /\ [][RaceNext]_vars

(***************************************************************************)
(* The image inputs of the product form                                    *)
(***************************************************************************)
ImageInit == Opened("products", Pool("products"))

\* the answers POST /products/images is tried with: one stored image, or a
\* payload without images
ImageBodies ==
  {Envelope(Obj([images |-> Arr(<<Text(<<"v">>)>>)])), Envelope(EmptyObj)}

ImageNext ==
  \/ AuthMount
  \/ \E r \in inflight : FetchUserResolve(r, 200, Envelope(AdminUser))
  \/ PageMount("products")
  \/ \E r \in pending : FetchListResolve(r, 200, Arr(db))
  \/ \E r \in pending : FetchCategoriesResolve(r, 200, Arr(<<Phones>>))
  \/ OpenAddModal
  \/ \E rec \in Range(items) : OpenEditModal(rec)
  \/ CloseModal
  \/ AddImageField
  \/ \E i \in 1..MaxImages : RemoveImageField(i)
  \/ \E i \in 1..MaxImages, v \in {Text(<<>>), Text(<<"w">>)} :
       UpdateImageField(i, v)
  \/ \E file \in {"text", "image"} : HandleImageUpload(file)
  \/ \E r \in pending, st \in {200, 500}, b \in ImageBodies :
       UploadResolve(r, st, IF st = 200 THEN b ELSE Undefined)

ImageSpec == ImageInit /\ [][ImageNext]_vars

(***************************************************************************)
(* Properties                                                              *)
(***************************************************************************)
\* what a response carries: the data of an envelope, else the body itself
Payload(body) == IF IsEnvelope(body) THEN body.f.data ELSE body
HasTokenCookie(jar) == \E k \in DOMAIN jar : jar[k].name = "admin_token"
Resolved(op) == lastOp.op = op /\ lastOp.status = 200

\* the state a handled 401 leaves: neither local storage nor the cookie
\* holds a token; window.location.href = '/login' was assigned when the
\* pathname was not /login, and was not assigned when it was /login already
Cleared401 ==
  /\ localStorage = NoToken
  /\ ~HasTokenCookie(documentCookie)
  /\ lastOp.path # LoginPath => lastOp.navs = 1 /\ navPending
  /\ lastOp.path = LoginPath => lastOp.navs = 0 /\ navPending = lastOp.nav

\* the claim as written: a 401 from any API call removes the stored token
\* exactly once and expires the cookie exactly once
C1_Original ==
  lastOp.status = 401 =>
    /\ lastOp.removes = 1
    /\ lastOp.expires = 1
    /\ Cleared401

\* C1: a 401 from any API call leaves local storage and the cookie without a
\* token and navigates to /login unless the pathname is /login already; the
\* token is removed and the cookie expired exactly once, by the response
\* interceptor, except on a 401 from GET /users/me, where fetchUser's catch
\* calls logout() and both are run a second time.
C1_Unauthorized ==
  lastOp.status = 401 =>
    LET times == IF lastOp.op = "fetchUser" THEN 2 ELSE 1
    IN /\ lastOp.removes = times
       /\ lastOp.expires = times
       /\ lastOp.loggedOut = (lastOp.op = "fetchUser")
       /\ Cleared401

\* a 401 from /users/me handled on /login after the token had been cleared
\* already: two clears and no navigation
C1_Witness ==
  /\ lastOp.status = 401
  /\ lastOp.op = "fetchUser"
  /\ lastOp.removes = 2
  /\ lastOp.path = LoginPath
  /\ lastOp.ls = NoToken
  /\ ~navPending

\* C2: when /users/me answers the mount-time request with an admin user, the
\* resolved fetch leaves isLoading false, isAuthenticated true and user equal
\* to that user.
C2_AdminResolves ==
  (Resolved("fetchUser") /\ Get(Payload(lastOp.body), "role") = Str("admin")) =>
    /\ ~isLoading
    /\ isAuthenticated
    /\ user = Payload(lastOp.body)

C2_Witness ==
  /\ Resolved("fetchUser")
  /\ lastOp.body = Envelope(AdminUser)
  /\ lastOp.loading
  /\ user = AdminUser

\* C3: when /users/me fails or answers with a non-admin role, the resolved
\* fetch leaves isAuthenticated false, user null, isLoading false and no token
\* in local storage or in the cookie.
C3_NonAdminResolves ==
  (/\ lastOp.op = "fetchUser"
   /\ \/ lastOp.status # 200
      \/ Get(Payload(lastOp.body), "role") # Str("admin")) =>
    /\ ~isAuthenticated
    /\ user = Null
    /\ ~isLoading
    /\ localStorage = NoToken
    /\ ~HasTokenCookie(documentCookie)

\* a customer's token, stored in both places, is dropped by a 200 answer
C3_Witness ==
  /\ Resolved("fetchUser")
  /\ Payload(lastOp.body) = CustomerUser
  /\ lastOp.ls # NoToken
  /\ HasTokenCookie(lastOp.jar)
  /\ localStorage = NoToken

\* C4: a login answered with an admin user stores the access token under
\* admin_token in local storage and in the admin_token cookie (path /,
\* max-age 7 days, SameSite=Lax) and sets isAuthenticated with that user.
C4_AdminLogin ==
  (Resolved("login") /\ Get(Get(Payload(lastOp.body), "user"), "role") = Str("admin")) =>
    LET tok == Get(Payload(lastOp.body), "access_token").s
    IN /\ localStorage = tok
       /\ \E k \in DOMAIN documentCookie :
            documentCookie[k] =
              [name |-> "admin_token", value |-> tok, path |-> "/",
               maxAge |-> 7 * 24 * 60 * 60, sameSite |-> "Lax"]
       /\ FindCookie(documentCookie, "admin_token") = tok
       /\ isAuthenticated
       /\ user = Get(Payload(lastOp.body), "user")
       /\ ~lastOp.threw

C4_Witness ==
  /\ Resolved("login")
  /\ ~lastOp.auth
  /\ lastOp.ls = NoToken
  /\ localStorage = "t2"
  /\ isAuthenticated

\* C5: a login answered with a non-admin user or without a user payload
\* throws, leaves local storage and the cookie as they were and leaves user
\* and isAuthenticated unchanged.
C5_DeniedLogin ==
  (Resolved("login") /\ Get(Get(Payload(lastOp.body), "user"), "role") # Str("admin")) =>
    /\ lastOp.threw
    /\ localStorage = lastOp.ls
    /\ documentCookie = lastOp.jar
    /\ user = lastOp.user
    /\ isAuthenticated = lastOp.auth

\* a customer logs in while a token is still stored
C5_Witness ==
  /\ Resolved("login")
  /\ Get(Payload(lastOp.body), "user") = CustomerUser
  /\ lastOp.threw
  /\ localStorage = "t1"

\* C6: logout(), from the Layout's button or from fetchUser, leaves no token
\* in local storage and no admin_token cookie, user null, isAuthenticated
\* false and isLoading false.
C6_Logout ==
  lastOp.loggedOut =>
    /\ localStorage = NoToken
    /\ ~HasTokenCookie(documentCookie)
    /\ user = Null
    /\ ~isAuthenticated
    /\ ~isLoading

\* the button pressed in an authenticated session holding token and cookie
C6_Witness ==
  /\ lastOp.op = "logout"
  /\ lastOp.auth
  /\ lastOp.ls # NoToken
  /\ HasTokenCookie(lastOp.jar)
  /\ localStorage = NoToken

\* C7: a guarded route shows its content only when isLoading is false and
\* isAuthenticated is true, shows the spinner while isLoading is true, and
\* has redirected to /login when isLoading and isAuthenticated are false.
C7_Guard ==
  /\ screen = "children" <=>
       (pathname \in GuardedRoutes /\ ~isLoading /\ isAuthenticated)
  /\ (pathname \in GuardedRoutes /\ isLoading) => screen = "spinner"
  /\ (~isLoading /\ ~isAuthenticated) => (pathname = LoginPath /\ screen = "login")

\* the mount-time check fails on a guarded route, which redirects
C7_Witness ==
  /\ lastOp.op = "fetchUser"
  /\ lastOp.path \in GuardedRoutes
  /\ lastOp.loading
  /\ lastOp.navs = 0
  /\ pathname = LoginPath

\* C8: a request carries Authorization: Bearer <token> with the local-storage
\* token if there is one, else the admin_token cookie's value, and carries no
\* Authorization header exactly when neither holds a token.
C8_Authorization ==
  lastReq.id # 0 =>
    /\ lastReq.ls # NoToken => lastReq.auth = Bearer(lastReq.ls)
    /\ (lastReq.ls = NoToken /\ HasTokenCookie(lastReq.jar)) =>
         \E k \in DOMAIN lastReq.jar :
           /\ lastReq.jar[k].name = "admin_token"
           /\ lastReq.auth = Bearer(lastReq.jar[k].value)
    /\ lastReq.auth = NoHeader <=>
         (lastReq.ls = NoToken /\ ~HasTokenCookie(lastReq.jar))

\* a request sent with the cookie's token after local storage was cleared
C8_Witness ==
  /\ lastReq.id # 0
  /\ lastReq.ls = NoToken
  /\ HasTokenCookie(lastReq.jar)
  /\ lastReq.auth = Bearer("t1")

\* C9: the payload the Dashboard keeps is body.data for an envelope
\* { data, timestamp } and the body itself for a raw payload, whatever the
\* payload is.
C9_Unwrapped ==
  (Resolved("fetchStats") /\ ~Throws(lastOp.body)) => stats = Payload(lastOp.body)

\* C10: generateSlug's result has only a-z, 0-9 and '-', no hyphen at either
\* end, no two adjacent hyphens, the input's alphanumerics in order with one
\* hyphen per run of other characters between them, and
\* generateSlug("iPhone 15 Pro!") = "iphone-15-pro".
AlnumOf(s) == SelectSeq(s, IsAlnum)
InnerRuns(s) ==
  Cardinality({k \in 2..Len(s) :
    /\ ~IsAlnum(s[k])
    /\ IsAlnum(s[k - 1])
    /\ \E j \in (k + 1)..Len(s) : IsAlnum(s[j])})
Hyphens(s) == Cardinality({k \in 1..Len(s) : s[k] = "-"})

C10_Slug ==
  slugDone =>
    /\ \A k \in 1..Len(slugOut) : IsAlnum(slugOut[k]) \/ slugOut[k] = "-"
    /\ slugOut # <<>> => (slugOut[1] # "-" /\ slugOut[Len(slugOut)] # "-")
    /\ \A k \in 1..(Len(slugOut) - 1) : ~(slugOut[k] = "-" /\ slugOut[k + 1] = "-")
    /\ AlnumOf(slugOut) = AlnumOf(ToLowerCase(slugIn))
    /\ Hyphens(slugOut) = InnerRuns(ToLowerCase(slugIn))
    /\ slugIn = IPhone15Pro =>
         slugOut = <<"i", "p", "h", "o", "n", "e", "-", "1", "5", "-", "p", "r", "o">>

\* a name with a leading separator and a run of separators inside
C10_Witness ==
  /\ slugDone
  /\ slugIn = <<"!", "P", " ", "-", "5">>
  /\ slugOut = <<"p", "-", "5">>

\* C19: the AuthProvider mount effect requests /users/me exactly when a token
\* is found in local storage or, failing that, in the admin_token cookie; a
\* token found only in the cookie is copied into local storage and the request
\* carries it; when no token is found, no request is issued and isLoading is
\* false with isAuthenticated false.
C19_Mount ==
  lastOp.op = "mount" =>
    LET cookie == FindCookie(lastOp.jar, "admin_token")
        found == lastOp.ls # NoToken \/ cookie # NoToken
        token == IF lastOp.ls # NoToken THEN lastOp.ls ELSE cookie
        issued == {r \in inflight : r.url = "/users/me"}
    IN /\ found <=> issued # {}
       /\ found =>
            /\ localStorage = token
            /\ issued = {[id |-> lastReq.id, url |-> "/users/me",
                          auth |-> Bearer(token)]}
       /\ ~found =>
            /\ ~isLoading
            /\ ~isAuthenticated
            /\ localStorage = NoToken

\* a mount that found the token in the cookie only
C19_Witness ==
  /\ lastOp.op = "mount"
  /\ lastOp.ls = NoToken
  /\ FindCookie(lastOp.jar, "admin_token") = "t1"
  /\ localStorage = "t1"
  /\ lastReq.url = "/users/me"
  /\ lastReq.auth = Bearer("t1")

\* C15: when a list fetch fails, the page's collection is the empty list
\* afterwards, whatever it held before; a successful fetch whose payload is
\* not an array yields the empty list too.
C15_FetchFailure ==
  lastAct.op = "fetchList" =>
    /\ lastAct.status # 200 => items = <<>>
    /\ (lastAct.status = 200 /\ Payload(lastAct.arg).t # "arr") => items = <<>>

\* a failed list fetch on a page that was showing records
C15_Witness ==
  /\ lastAct.op = "fetchList"
  /\ lastAct.status = 500
  /\ lastAct.pre.items # <<>>
  /\ items = <<>>

\* the records the page shows that a URL addressing `of` names
Named(of) == {i \in 1..Len(items) : Get(items[i], KeyField(page)) = of}

\* C12: handleDelete sends nothing when the prompt is cancelled and exactly
\* one DELETE addressed to the record when it is confirmed; a DELETE that
\* succeeded is followed by exactly one list fetch, a DELETE that failed by
\* none; the collection shown after that fetch does not hold the record.
C12_Delete ==
  /\ lastAct.op = "handleDelete" =>
       IF lastAct.arg.confirmed
       THEN /\ Len(lastAct.sent) = 1
            /\ lastAct.sent[1].method = "DELETE"
            /\ lastAct.sent[1].url =
                 Url(ItemPath(page), Get(lastAct.arg.rec, KeyField(page)))
            /\ lastAct.sent[1] \in pending
       ELSE lastAct.sent = <<>>
  /\ lastAct.op = "deleteDone" =>
       IF lastAct.status = 200
       THEN /\ Len(lastAct.sent) = 1
            /\ lastAct.sent[1].method = "GET"
            /\ lastAct.sent[1].url = Url(ListPath(page), Undefined)
       ELSE lastAct.sent = <<>>
  /\ (lastAct.op = "fetchList" /\ lastAct.req.ctx.by = "delete") =>
       Named(lastAct.req.ctx.of) = {}

\* the list fetched after a delete shows the other record and not the
\* deleted one
C12_Witness ==
  /\ lastAct.op = "fetchList"
  /\ lastAct.req.ctx.by = "delete"
  /\ lastAct.status = 200
  /\ Len(lastAct.pre.items) = 2
  /\ Len(items) = 1

\* C16: handleSubmit sends one request: a POST to the collection when no
\* record is being edited, a PATCH or PUT addressed to the edited record when
\* one is. When the request succeeds the handler sends the list fetch and
\* closes the modal; when it fails the handler sends nothing and the modal, the
\* form state and the edited record are as they were.
C16_Submit ==
  /\ lastAct.op = "handleSubmit" =>
       /\ Len(lastAct.sent) = 1
       /\ lastAct.sent[1] \in pending
       /\ IF editing = Null
          THEN /\ lastAct.sent[1].method = "POST"
               /\ lastAct.sent[1].url = Url(ItemPath(page), Undefined)
          ELSE /\ lastAct.sent[1].method \in {"PATCH", "PUT"}
               /\ lastAct.sent[1].url =
                    Url(ItemPath(page), Get(editing, KeyField(page)))
  /\ lastAct.op = "submitDone" =>
       IF lastAct.status = 200
       THEN /\ Len(lastAct.sent) = 1
            /\ lastAct.sent[1].method = "GET"
            /\ lastAct.sent[1].url = Url(ListPath(page), Undefined)
            /\ lastAct.sent[1] \in pending
            /\ ~showModal
            /\ editing = Null
       ELSE /\ lastAct.sent = <<>>
            /\ showModal = lastAct.pre.showModal
            /\ formData = lastAct.pre.formData
            /\ editing = lastAct.pre.editing

\* an update that failed while the modal was open on the edited record
C16_Witness ==
  /\ lastAct.op = "submitDone"
  /\ lastAct.status = 500
  /\ lastAct.req.method = "PATCH"
  /\ showModal
  /\ editing # Null
  /\ formData # FormOf(page, editing)

\* C17: whenever an existing About Us section is being edited, the PUT that
\* handleSubmit sends carries in its URL and in its payload the key the
\* section had when the edit modal was opened, whatever the form edits were.
C17_KeyImmutable ==
  (page = "about-us" /\ lastAct.op = "handleSubmit" /\ editing # Null) =>
    /\ lastAct.sent[1].method = "PUT"
    /\ lastAct.sent[1].url.of = Get(editing, "key")
    /\ Get(lastAct.sent[1].data, "key") = Get(editing, "key")

\* a section submitted after its form was edited
C17_Witness ==
  /\ page = "about-us"
  /\ lastAct.op = "handleSubmit"
  /\ editing = Mission
  /\ formData # FormOf(page, editing)
  /\ lastAct.sent[1].url = Url("/settings/about-us", Str("k1"))

\* the handlers that run from the answer to a request on
Continuations ==
  {"fetchList", "fetchCategories", "fetchSettings", "submitDone", "deleteDone",
   "uploadDone", "heroUploadDone", "statusDone", "detailDone"}

\* the handler that ran last was handed a rejection: its catch block ran
Caught ==
  CASE lastAct.op = "fetchList" -> items = <<>>
    [] lastAct.op = "fetchCategories" -> categoryList = <<>>
    [] lastAct.op = "fetchSettings" -> settings = lastAct.pre.settings
    [] OTHER -> lastAct.notes # <<>> /\ lastAct.notes[1] = "error"

\* C18: no handler sends the same request twice, a handler whose request
\* failed sends nothing (the request is not issued again), and every failure,
\* a 401 included, reaches the handler as a rejection: its catch block runs.
C18_NoRetry ==
  /\ \A i, j \in DOMAIN lastAct.sent :
       i # j => <<lastAct.sent[i].method, lastAct.sent[i].url>>
                  # <<lastAct.sent[j].method, lastAct.sent[j].url>>
  /\ (lastAct.op \in Continuations /\ lastAct.status # 200) =>
       /\ lastAct.sent = <<>>
       /\ lastAct.req \notin pending
       /\ Caught

\* a 401 answered to an update: the error notification, nothing sent again
C18_Witness ==
  /\ lastAct.op = "submitDone"
  /\ lastAct.status = 401
  /\ lastAct.req.method = "PUT"
  /\ lastAct.notes = <<"error">>
  /\ pending = {}

\* C20: whenever a fetch, a submit or an upload has completed, by success or
\* by failure, the flag that guards it is false: loading after a list or
\* settings fetch, saving after a submit, uploadingImages and uploading after
\* an upload, isLoading after fetchUser.
C20_FlagsReset ==
  /\ lastAct.op \in {"fetchList", "fetchSettings"} => ~pageLoading
  /\ lastAct.op = "submitDone" => ~saving
  /\ lastAct.op \in {"uploadDone", "heroUploadDone"} => ~uploading
  /\ lastOp.op = "fetchUser" => ~isLoading

\* a product image upload that failed
C20_Witness ==
  /\ page = "products"
  /\ lastAct.op = "uploadDone"
  /\ lastAct.status = 500
  /\ ~uploading
  /\ showModal

\* C13: selecting a status s for an order in a status select sends exactly one
\* PATCH /orders/:id/status with the body { status: s }; when it succeeds and
\* the detail view is open on that order, the detail record's status is s and
\* its other fields are as before, and no request for the detail record is
\* sent.
C13_StatusSelect ==
  /\ (lastAct.op = "updateStatus" /\ ~lastAct.arg.closing) =>
       /\ Len(lastAct.sent) = 1
       /\ lastAct.sent[1].method = "PATCH"
       /\ lastAct.sent[1].url = StatusUrl(lastAct.arg.id)
       /\ lastAct.sent[1].data = Obj([status |-> lastAct.arg.status])
  /\ (lastAct.op = "statusDone" /\ lastAct.status = 200
        /\ ~lastAct.req.ctx.closing) =>
       /\ \A i \in DOMAIN lastAct.sent : lastAct.sent[i].kind # "detail"
       /\ (/\ lastAct.pre.showModal
           /\ Truthy(lastAct.pre.selectedOrder)
           /\ Get(lastAct.pre.selectedOrder, "id") = lastAct.req.url.of) =>
            selectedOrder =
              With(lastAct.pre.selectedOrder, "status", Get(lastAct.req.data, "status"))

\* the transitions of an order's status: forward by one step, or to
\* cancelled from a status that is not terminal
Follows(from, to) ==
  \/ <<from, to>> \in {<<Str("pending"), Str("processing")>>,
                        <<Str("processing"), Str("shipped")>>,
                        <<Str("shipped"), Str("delivered")>>}
  \/ to = Str("cancelled") /\ from \in {Str("pending"), Str("processing"), Str("shipped")}

\* C14: every status change the Orders page requests follows pending ->
\* processing -> shipped -> delivered, or goes to cancelled from pending,
\* processing or shipped; none leaves delivered or cancelled.
C14_Transitions ==
  lastAct.op = "updateStatus" => Follows(lastAct.arg.from, lastAct.arg.status)


\* handleSubmit has just sent the update for the record openEditModal was
\* called on, the form being as openEditModal set it
Untouched ==
  /\ lastAct.op = "handleSubmit"
  /\ Truthy(editing)
  /\ formData = FormOf(page, editing)

\* every field of the payload but the slug has the record's value, and the
\* slug is the one derived from the record's name
Reproduces(data, rec) ==
  /\ \A k \in DOMAIN data.f \ {"slug"} : data.f[k] = Get(rec, k)
  /\ "slug" \in DOMAIN data.f =>
       data.f["slug"] = Text(generateSlug(Get(rec, "name").cs))

\* C11 as stated: for every record in the list, openEditModal followed by
\* handleSubmit with no change to the form sends an update whose fields equal
\* the record's fields, the slug re-derived from the name
C11_Original == Untouched => Reproduces(lastAct.sent[1].data, editing)

\* a list of non-empty strings without commas or surrounding blanks
TrimmedList(v) ==
  /\ v.t = "arr"
  /\ \A i \in 1..Len(v.items) :
       LET x == v.items[i]
       IN /\ x.t = "text"
          /\ x.cs # <<>>
          /\ Trim(x.cs) = x.cs
          /\ \A j \in 1..Len(x.cs) : x.cs[j] # ","

AbsentOrSet(v) == v = Undefined \/ Truthy(v)

Translated(rec) ==
  \A l \in {"en", "ru", "ar"} : Truthy(Get(Get(rec, "translations"), l))

\* the record has the shape the page's form saves: the optional structures
\* are present and no value is one the form fills in, drops or splits
Saved(p, rec) ==
  CASE p = "products" ->
         /\ Get(rec, "description").t = "str"
         /\ AbsentOrSet(Get(rec, "categoryId"))
         /\ AbsentOrSet(Get(rec, "badge"))
         /\ \A i \in 1..Len(Get(rec, "images").items) :
              Trim(Get(rec, "images").items[i].cs) # <<>>
         /\ Get(rec, "specs").t = "obj"
         /\ TrimmedList(Get(Get(rec, "variants"), "colors"))
         /\ TrimmedList(Get(Get(rec, "variants"), "storage"))
         /\ TrimmedList(Get(Get(rec, "variants"), "versions"))
         /\ Translated(rec)
    [] p = "categories" ->
         /\ AbsentOrSet(Get(rec, "imageUrl"))
         /\ Translated(rec)
    [] p = "faq" ->
         /\ Get(rec, "order").t = "num"
         /\ Translated(rec)
    [] p = "about-us" -> Translated(rec)

\* C11, amended: for every record in the list that has the shape the form
\* saves, openEditModal followed by handleSubmit with no change to the form
\* sends an update whose fields equal the record's fields, the slug re-derived
\* from the name
C11_Idempotent ==
  (Untouched /\ Saved(page, editing)) =>
    Reproduces(lastAct.sent[1].data, editing)

\* the unchanged form of a saved product without images has been submitted
C11_Witness ==
  /\ Untouched
  /\ Saved(page, editing)
  /\ page = "products"
  /\ Get(editing, "images") = EmptyArr
  /\ lastAct.sent[1].method = "PATCH"

\* a list of strings
Strings(v) == v.t = "arr" /\ \A i \in 1..Len(v.items) : v.items[i].t = "text"

\* C21: for every product record, openEditModal sets a form whose
\* translations have en, ru and ar (the record's name and description where
\* the record has none), whose specs is a mapping, whose variants have the
\* lists colors, storage and versions, and whose colours are all strings,
\* also for a record that stores them as { id, name, hex } objects
C21_Populated ==
  (lastAct.op = "openEditModal" /\ page = "products") =>
    LET rec == lastAct.arg
        own == NameDescription(Get(rec, "name"),
                               Or(Get(rec, "description"), Str("")))
        variants == Get(formData, "variants")
    IN /\ \A l \in {"en", "ru", "ar"} :
            LET had == Get(Get(rec, "translations"), l)
                now == Get(Get(formData, "translations"), l)
            IN /\ now.t = "obj"
               /\ now = IF Truthy(had) THEN had ELSE own
       /\ Get(formData, "specs").t = "obj"
       /\ DOMAIN variants.f = {"colors", "storage", "versions"}
       /\ Strings(Get(variants, "colors"))
       /\ Strings(Get(variants, "storage"))
       /\ Strings(Get(variants, "versions"))
       /\ Len(Get(variants, "colors").items)
            = Len(Or(Get(Get(rec, "variants"), "colors"), EmptyArr).items)

\* openEditModal has run on the product whose colours are stored as objects
C21_Witness ==
  /\ lastAct.op = "openEditModal"
  /\ page = "products"
  /\ lastAct.arg = Legacy
  /\ Get(Get(formData, "variants"), "colors") = Arr(<<Text(<<"a">>), Text(<<"b">>)>>)

\* C22: in every state of AuthProvider, isAuthenticated is true exactly when
\* user is non-null, and the user of an authenticated session has the role
\* admin
C22_UserIffAuthenticated ==
  /\ isAuthenticated <=> user # Null
  /\ isAuthenticated => Get(user, "role") = Str("admin")

\* an authenticated session whose user came from login
C22_Witness ==
  /\ isAuthenticated
  /\ user = AdminUser
  /\ lastOp.op = "login"

\* C23: a successful admin login is not undone by the mount-time token check:
\* when the /users/me request sent at mount is answered after login has
\* stored its token and set isAuthenticated, the session stays authenticated
\* with that token in local storage
C23_LoginKept ==
  (lastOp.op = "fetchUser" /\ lastOp.auth) =>
    /\ isAuthenticated
    /\ localStorage = lastOp.ls

\* C24: the detail modal shows the order opened last: selectedOrder is
\* non-null only while showModal is true, and the completion of a status
\* update never changes which order an open detail view shows
C24_DetailIsLastOpened ==
  /\ Truthy(selectedOrder) => showModal
  /\ (/\ lastAct.op = "statusDone"
      /\ ~lastAct.req.ctx.closing
      /\ lastAct.pre.showModal
      /\ Truthy(lastAct.pre.selectedOrder)) =>
       Get(selectedOrder, "id") = Get(lastAct.pre.selectedOrder, "id")

\* C25: closeOrder adds its success notification and closes the detail modal
\* only if the PATCH succeeded; when the PATCH fails no success notification
\* is added and the modal is left as it was
C25_CloseOrder ==
  (lastAct.op = "statusDone" /\ lastAct.req.ctx.closing) =>
    IF lastAct.status = 200
    THEN /\ lastAct.notes = <<"success", "success">>
         /\ ~showModal
         /\ selectedOrder = Null
    ELSE /\ \A i \in DOMAIN lastAct.notes : lastAct.notes[i] = "error"
         /\ showModal = lastAct.pre.showModal
         /\ selectedOrder = lastAct.pre.selectedOrder

\* C26: when list fetches of a page have been in flight together and all of
\* them are answered, the page's collection is the one set by the fetch that
\* was sent last, in whatever order the answers arrived
C26_LastFetchWins ==
  (lastAct.op = "fetchList" /\ \A r \in pending : r.kind # "list") =>
    items = latest.items

\* C27: what was edited in the form while an image upload was in flight is
\* kept: when handleImageUpload completes with success, the form state is the
\* one of that moment with only its images changed, the uploaded paths
\* appended to the non-blank images
C27_EditsKept ==
  (lastAct.op = "uploadDone" /\ lastAct.notes = <<"success">>) =>
    LET was == lastAct.pre.formData
        kept == SelectSeq(Get(was, "images").items, LAMBDA img : img.cs # <<>>)
    IN formData = With(was, "images",
                       Arr(kept \o UploadedImages(lastAct.arg).items))

\* C28: the product form always has at least one image input: after any
\* sequence of openAddModal, openEditModal, addImageField, removeImageField,
\* updateImageField and handleImageUpload, formData.images is not empty
C28_OneImageField ==
  (page = "products" /\ showModal) => Len(Get(formData, "images").items) >= 1

\* the create and update requests in flight
Submits == {r \in pending : r.kind = "submit"}

\* C29: on each resource form at most one create or update request is in
\* flight: while one is, saving is true and the form cannot be submitted, and
\* a submit that starts finds none in flight
C29_OneSubmit ==
  /\ Cardinality(Submits) <= 1
  /\ Submits # {} => saving /\ ~SubmitOffered
  /\ lastAct.op = "handleSubmit" => Submits = Range(lastAct.sent)

\* a create is in flight while the modal is still open on the filled-in form
C29_Witness ==
  /\ Submits # {}
  /\ \E r \in Submits : r.method = "POST"
  /\ showModal
  /\ ~navPending
  /\ lastAct.op = "change"

\* C30: in every state in which the document is not being replaced, an
\* authenticated session has a token under admin_token in local storage
C30_TokenWhileAuthenticated ==
  (isAuthenticated /\ ~navPending) => localStorage # NoToken

====
